---------------------------- MODULE Spec2Model ----------------------------
(***************************************************************************)
(* A model of the NAND image writer (imagewrite.c) and of the UBI volume   *)
(* extractor (ubi-utils/deubinize.c).                                      *)
(*                                                                         *)
(* Machine words.  `unsigned long` and `long` are 32 bits wide (the ILP32  *)
(* targets the writer is built for); a word is represented by its two's    *)
(* complement reading, an integer in -2^31 .. 2^31-1, so that the cast     *)
(* between `long` and `unsigned long` is the identity on the               *)
(* representation and the signedness lives in the operators: U* operators  *)
(* read their operands as unsigned, plain < and > read them as signed.     *)
(* uint32_t / __be32 values use the same representation.                   *)
(***************************************************************************)
EXTENDS Integers, Sequences, FiniteSets, TLC

\* ------------------------------------------------------------ word arithmetic

\* Width of `unsigned long` / `long` (struct args, imagewrite.c).
LongBits == 32

Two31m1 == (2^(LongBits - 2) - 1) + 2^(LongBits - 2)
WordMin == (-Two31m1) - 1

\* x + y modulo 2^32, on the two's complement representation.
UAdd(x, y) ==
    IF x >= 0 /\ y >= 0
    THEN (IF x > Two31m1 - y THEN ((x + WordMin) + y) + WordMin ELSE x + y)
    ELSE IF x < 0 /\ y < 0
    THEN (IF x < WordMin - y THEN ((x - WordMin) + y) - WordMin ELSE x + y)
    ELSE x + y

\* -x modulo 2^32.
UNeg(x) == IF x = WordMin THEN WordMin ELSE -x

\* x - y modulo 2^32.
USub(x, y) == UAdd(x, UNeg(y))

\* Unsigned x < y.
ULt(x, y) == IF (x < 0) = (y < 0) THEN x < y ELSE y < 0

ULe(x, y) == x = y \/ ULt(x, y)

\* Unsigned x / 2.
UHalf(x) == IF x >= 0 THEN x \div 2 ELSE ((x - WordMin) \div 2) + 2^(LongBits - 2)

\* x * y modulo 2^32 (shift and add).
RECURSIVE UMul(_, _)
UMul(x, y) ==
    IF y = 0 THEN 0
    ELSE CHOOSE r \in {UAdd(IF y % 2 = 1 THEN x ELSE 0, m) :
                        m \in {UMul(d, h) : d \in {UAdd(x, x)}, h \in {UHalf(y)}}} : TRUE

\* Unsigned x / d for a divisor 2 <= d < 2^31.
UDiv(x, d) ==
    IF x >= 0 THEN x \div d
    ELSE LET lo == x - WordMin      \* x = 2^31 + lo as an unsigned value
             qh == (Two31m1 \div d) + (((Two31m1 % d) + 1) \div d)
             rh == ((Two31m1 % d) + 1) % d
         IN  qh + (lo \div d) + ((rh + (lo % d)) \div d)

\* Unsigned x % d for a divisor 2 <= d < 2^31.
UMod(x, d) ==
    IF x >= 0 THEN x % d
    ELSE ((((Two31m1 % d) + 1) % d) + ((x - WordMin) % d)) % d

\* The four bytes of a word, least significant first.
ByteOf(x, i) == (x \div (2^(8 * i))) % 256

\* cpu_to_be32 / be32_to_cpu on a little-endian host: the byte swap.
Swab32(x) ==
    LET b0 == ByteOf(x, 0)
        b1 == ByteOf(x, 1)
        b2 == ByteOf(x, 2)
        b3 == ByteOf(x, 3)
    IN  ((IF b0 >= 128 THEN b0 - 256 ELSE b0) * 2^24) + b1 * 2^16 + b2 * 2^8 + b3

\* cpu_to_be16 on a little-endian host.
Swab16(x) == (x % 256) * 256 + ((x \div 256) % 256)


\* ------------------------------------------------------------ UBI constants

UBI_EC_HDR_MAGIC == 1430407459            \* 0x55424923
UBI_VID_HDR_MAGIC == 1430407457           \* 0x55424921
UBI_VERSION == 1
UBI_EC_HDR_SIZE == 64
UBI_VID_HDR_SIZE == 64
UBI_VTBL_RECORD_SIZE == 172
UBI_VOL_NAME_MAX == 127
UBI_MAX_VOLUMES == 128
UBI_LAYOUT_VOLUME_EBS == 2
UBI_LAYOUT_VOLUME_ID == 2147479551        \* 0x7FFFEFFF
UBI_LAYOUT_VOLUME_TYPE == 1               \* UBI_VID_DYNAMIC
UBI_LAYOUT_VOLUME_COMPAT == 5             \* UBI_COMPAT_REJECT
UBI_VID_DYNAMIC == 1
UBI_CRC32_INIT == -1                      \* 0xFFFFFFFF
\* the number of volume table records eb_gen_data writes
VTBL_SLOTS == 128
\* the spare LEBs the default volume size leaves for bad block handling
DEFAULT_SPARE_LEBS == 20
EXIT_SUCCESS == 0
EXIT_FAILURE == 1
\* the exit status of a run killed by SIGSEGV
EXIT_SIGSEGV == 139

\* ------------------------------------------------------------ bounds

\* PEBs of the MTD device.
DevPebs == 4
\* Environment faults in one run: PEBs that are bad before it, failed
\* bad-block queries and erases of the erase pass, failed read() calls, and
\* eb_write calls in which a page write fails (the bad-block query, the erase
\* and the mark-bad call that handle the failed page write answer freely).
MaxFaults == 1
\* Compression errors counted in errcnt.
MaxErrcnt == 2

\* ------------------------------------------------------------ device geometry

\* mtd_get_dev_info: PEB size, page size, device size.
mtd == [eb_size |-> 65536, min_io_size |-> 16384, size |-> DevPebs * 65536]

PagesPerEb == mtd.eb_size \div mtd.min_io_size
Pages == 0 .. (PagesPerEb - 1)
Pebs == 0 .. (DevPebs - 1)

\* ------------------------------------------------------------ strings

\* A C string is the sequence of its character codes; the null pointer is the
\* one-element sequence <<0>>, which no C string is.
NULLPTR == <<0>>
Str(n) == [i \in 1 .. n |-> 97]
strlen(s) == Len(s)

\* ------------------------------------------------------------ input data

\* The byte at every offset of page k (min_io_size bytes) of the input.
Sym(pat, k) ==
    CASE pat = "idx" -> (k % 200) + 1
      [] pat = "ffblk" -> IF k < PagesPerEb THEN 255 ELSE (k % 200) + 1
      [] pat = "alt" -> IF k % 2 = 0 THEN 255 ELSE (k % 200) + 1
      [] OTHER -> 255

\* ------------------------------------------------------------ page contents

\* What a page of a block buffer or of the flash holds.
FFPage == [k |-> "ff"]
\* n payload bytes of value v, then 0xFF
BytesPage(v, n) == IF n = 0 \/ v = 255 THEN FFPage ELSE [k |-> "bytes", v |-> v, n |-> n]
\* a page programmed over a page that was not erased
GarbagePage == [k |-> "garbage"]
\* stale contents of a PEB that was never erased
StalePage == [k |-> "bytes", v |-> 90, n |-> mtd.min_io_size]

ErasedPeb == [q \in Pages |-> FFPage]
StalePeb == [q \in Pages |-> StalePage]


\* ------------------------------------------------------------ state

VARIABLES
    cmd,         \* history: struct args as process_options left it
    args,        \* struct args
    inp,         \* the input file or stdin: [size, pat, chunk, err_at]
    bad,         \* the device: PEB -> marked bad
    flash,       \* the device: PEB -> page -> contents
    faults,      \* environment faults injected so far
    log,         \* history: main's eb_erase and eb_write calls, in order, each
                 \* with the MTD calls it issued
    pc,          \* where main() is: start, erase, gen, write; or how it ended:
                 \* rejected (lines 456-572), killed (a signal), exit (line 615 on)
    start,       \* main: start
    end,         \* main: end
    eb_addr,     \* main: eb_addr
    image_size,  \* main: image_size
    data_left,   \* main: data_left
    data_len,    \* main: data_len
    block_buf,   \* main: block_buf, page -> contents
    blk_no,      \* eb_gen_data: static blk_no
    image_seq,   \* eb_gen_data: static image_seq
    ipos,        \* the read offset of the input
    exit_code,   \* the exit status of the run, -1 while it runs
    hist,        \* history: what each eb_gen_data call returned and the PEB
                 \* whose eb_write call accepted the block
    geo,         \* main: mtd as mtd_get_dev_info filled it (eb_size,
                 \* min_io_size, size)
    dpc,         \* where deubinize's main() is: off (not run), opts, info,
                 \* extract, done
    dargs,       \* deubinize: struct args
    imi,         \* deubinize main: imi, as read_ubi_info left it
    r_seek,      \* extract_volume_data: r_seek
    out,         \* the output file: offset of a write -> the pages written there
    dret,        \* the exit status of deubinize, -1 until it ends
    dreq,        \* history: the volume deubinize's command line names, and what
                 \* read_ubi_info returned (-2 until it returns)
    cpc,         \* where the caller of the compression layer is: idle, in
                 \* init_compression (lzo, zlib, lzma, err_zlib, err_lzo, err),
                 \* ret (it returned), destroyed, killed
    build,       \* the build: whether LZO and LZMA are compiled in
    info_,       \* struct ubifs_info: favor_lzo
    lzo_mem,     \* lzo_mem: null, live or freed
    zlib_buf,    \* zlib_buf: null, live or freed
    lzma_p,      \* lzma_ctx.p: null, live or freed
    ic_ret,      \* init_compression: ret, and what it returned
    errcnt,      \* errcnt
    ctype        \* what the last compress_data call returned, "" before

\* The variables of deubinize, and all of them.
dvars == <<dpc, dargs, imi, r_seek, out, dret, dreq>>

\* The variables of the compression layer.
cvars == <<cpc, build, info_, lzo_mem, zlib_buf, lzma_p, ic_ret, errcnt, ctype>>

vars == <<cmd, args, inp, bad, flash, faults, log, pc, start, end, eb_addr,
          image_size, data_left, data_len, block_buf, blk_no, image_seq,
          ipos, exit_code, hist, geo, dvars, cvars>>

\* ------------------------------------------------------------ the MTD library

\* One MTD call: on PEB eb, at byte offs of it, with or without main-area data
\* and OOB data, and what it returned.
Call(op, eb, offs, data, oob, ret) ==
    [op |-> op, eb |-> eb, offs |-> offs, data |-> data, oob |-> oob, ret |-> ret]

\* One entry of log: a call main() made, and the MTD calls issued inside it.
Invoked(fn, addr, dlen, calls, ret) ==
    [fn |-> fn, addr |-> addr, dlen |-> dlen, calls |-> calls, ret |-> ret]

\* mtd_is_bad: > 0 bad, 0 good, < 0 the query failed.
IsBadOutcomes(eb) == IF eb \in Pebs /\ bad[eb] THEN {1, -1} ELSE {0, -1}

\* mtd_erase, mtd_write and mtd_mark_bad: 0, or -1 on failure.
IoOutcomes == {0, -1}

Cost(ret) == IF ret < 0 THEN 1 ELSE 0

\* A page after `page` is programmed over `old`.
Program(old, page) == IF old = FFPage THEN page ELSE GarbagePage

\* ------------------------------------------------------------ eb_erase

\* eb_erase with the erase moved out of the else branch: a PEB reported bad is
\* erased like a good one.
eb_erase_bad_too(addr, r, e) ==
    LET eb == UDiv(addr, mtd.eb_size)
        q  == Call("is_bad", eb, 0, FALSE, FALSE, r)
    IN  IF r < 0 THEN [ret |-> r, calls |-> <<q>>, erased |-> FALSE]
        ELSE [ret |-> e,
              calls |-> <<q, Call("erase", eb, 0, FALSE, FALSE, e)>>,
              erased |-> (e = 0)]

\* eb_erase(mtd, fd, eb_addr) when mtd_is_bad answers r and mtd_erase answers e:
\* its return value, the MTD calls it issues and the PEB's contents after it.
eb_erase(addr, r, e) ==
    LET eb == UDiv(addr, mtd.eb_size)
        q  == Call("is_bad", eb, 0, FALSE, FALSE, r)
    IN  IF r > 0 THEN [ret |-> r, calls |-> <<q>>, erased |-> FALSE]
        ELSE IF r < 0 THEN [ret |-> r, calls |-> <<q>>, erased |-> FALSE]
        ELSE [ret |-> e,
              calls |-> <<q, Call("erase", eb, 0, FALSE, FALSE, e)>>,
              erased |-> (e = 0)]

\* ------------------------------------------------------------ data_read

Min(a, b) == IF a < b THEN a ELSE b
Max(a, b) == IF a > b THEN a ELSE b

\* The input descriptor main() reads from: -1 when there is no input.
HasInput == args.std_in # 0 \/ args.img_file # 0

\* read(ifd, dest, n) at input offset pos: the count read, 0 at the end of the
\* input, -1 on an error (always, on the descriptor -1).
read(pos, n) ==
    IF ~HasInput \/ inp.err_at = pos THEN -1
    ELSE LET avail == Max(inp.size - pos, 0)
             upto  == IF inp.err_at > pos THEN inp.err_at - pos ELSE n
         IN  Min(Min(n, inp.chunk), Min(avail, upto))

\* data_read without the test of line 260: the end of the input ends every
\* read with the count read so far.
RECURSIVE data_read_eof_ok(_, _, _)
data_read_eof_ok(pos, left_to_read, len) ==
    IF left_to_read = 0 THEN [ret |-> len, pos |-> pos]
    ELSE LET n == read(pos, left_to_read)
         IN  IF n < 0 THEN [ret |-> -1, pos |-> pos]
             ELSE IF n = 0 THEN [ret |-> len - left_to_read, pos |-> pos]
             ELSE data_read_eof_ok(pos + n, left_to_read - n, len)

\* data_read(ifd, dest, len): the loop over read(); ret is its return value and
\* pos the input offset it leaves.
RECURSIVE data_read_loop(_, _, _)
data_read_loop(pos, left_to_read, len) ==
    IF left_to_read = 0 THEN [ret |-> len, pos |-> pos]
    ELSE LET n == read(pos, left_to_read)
         IN  IF n < 0 THEN [ret |-> -1, pos |-> pos]
             ELSE IF n = 0
             THEN (IF args.std_in # 0 /\ args.length = 0
                   THEN [ret |-> len - left_to_read, pos |-> pos]
                   ELSE [ret |-> -1, pos |-> pos])
             ELSE data_read_loop(pos + n, left_to_read - n, len)

data_read(pos, len) == data_read_loop(pos, len, len)

\* ------------------------------------------------------------ UBI headers

\* mtd_crc32 over the listed bytes or fields, from the seed: Crc32From is the
\* checksum of the fields from the i-th on, when that of the fields before is
\* acc.
RECURSIVE Crc32From(_, _, _)
Crc32From(acc, fields, i) ==
    IF i > Len(fields) THEN acc
    ELSE Crc32From((acc * 31 + (fields[i] % 65521)) % 65521, fields, i + 1)

Crc32(seed, fields) == Crc32From(seed % 65521, fields, 1)

EcCrcFields(h) == <<h.magic, h.version, h.ec, h.vid_hdr_offset, h.data_offset, h.image_seq>>
VidCrcFields(h) == <<h.magic, h.version, h.vol_type, h.copy_flag, h.compat, h.vol_id, h.lnum>>
VtblCrcFields(r) ==
    <<r.reserved_pebs, r.alignment, r.data_pad, r.vol_type, r.upd_marker, r.name_len, r.flags>>
    \o r.name

\* The EC header eb_gen_data writes at offset 0 of every UBI block.
EcHdr(seq) ==
    LET h == [magic |-> Swab32(UBI_EC_HDR_MAGIC), version |-> UBI_VERSION, ec |-> 0,
              vid_hdr_offset |-> Swab32(mtd.min_io_size),
              data_offset |-> Swab32(mtd.min_io_size * 2),
              image_seq |-> Swab32(seq), hdr_crc |-> 0]
    IN  [h EXCEPT !.hdr_crc = Swab32(Crc32(UBI_CRC32_INIT, EcCrcFields(h)))]

\* The VID header of a block: vol_type, compat, vol_id and lnum as given.
VidHdr(vol_type, compat, vol_id, lnum) ==
    LET h == [magic |-> Swab32(UBI_VID_HDR_MAGIC), version |-> UBI_VERSION,
              vol_type |-> vol_type, copy_flag |-> 0, compat |-> compat,
              vol_id |-> Swab32(vol_id), lnum |-> Swab32(lnum), hdr_crc |-> 0]
    IN  [h EXCEPT !.hdr_crc = Swab32(Crc32(UBI_CRC32_INIT, VidCrcFields(h)))]

\* A volume table record after memset(0) and the CRC.
WithVtblCrc(r) == [r EXCEPT !.crc = Swab32(Crc32(UBI_CRC32_INIT, VtblCrcFields(r)))]

ZeroRec ==
    WithVtblCrc([reserved_pebs |-> 0, alignment |-> 0, data_pad |-> 0, vol_type |-> 0,
                 upd_marker |-> 0, name_len |-> 0, name |-> <<>>, flags |-> 0, crc |-> 0])

\* The record of the volume: name is what strcpy copied.
VolRec(vol_lebs, name) ==
    WithVtblCrc([reserved_pebs |-> Swab32(vol_lebs), alignment |-> Swab32(1), data_pad |-> 0,
                 vol_type |-> UBI_VID_DYNAMIC, upd_marker |-> 0,
                 name_len |-> Swab16(strlen(name)), name |-> name, flags |-> 0, crc |-> 0])

\* The volume table of the loop over i < 128: the slots that are not ZeroRec.
\* Slot i of a table t is t[i] when i is in its domain and ZeroRec otherwise.
VtblGen(vol_id, vol_lebs, name) ==
    [i \in {j \in 0 .. (VTBL_SLOTS - 1) : j = vol_id} |-> VolRec(vol_lebs, name)]

VtblSlot(t, i) == IF i \in DOMAIN t THEN t[i] ELSE ZeroRec

\* ------------------------------------------------------------ eb_gen_data

IsFF(page) == page = FFPage

\* Page q of a block buffer that holds, from byte dofs on, the n bytes read at
\* input offset pos0, and 0xFF elsewhere.
DataPage(q, dofs, pos0, n) ==
    LET off == q * mtd.min_io_size - dofs
        cnt == Max(0, Min(n - off, mtd.min_io_size))
    IN  IF off < 0 THEN FFPage
        ELSE BytesPage(Sym(inp.pat, (pos0 + off) \div mtd.min_io_size), cnt)

\* Page q of a block buffer that holds the volume table t from byte dofs on.
VtblPage(q, dofs, t) ==
    LET off == q * mtd.min_io_size - dofs
        cnt == Max(0, Min(VTBL_SLOTS * UBI_VTBL_RECORD_SIZE - off, mtd.min_io_size))
    IN  IF off < 0 \/ cnt = 0 THEN FFPage
        ELSE [k |-> "vtbl", t |-> t, from |-> off, n |-> cnt]

EcPage(seq) == [k |-> "ec", h |-> EcHdr(seq)]
VidPage(h) == [k |-> "vid", h |-> h]

\* The length of a layout volume block on the device m: the volume table,
\* from the data offset on (line 353).
LayoutLen(m) == m.min_io_size * 2 + VTBL_SLOTS * UBI_VTBL_RECORD_SIZE

\* GenVidPage with the lnum of a volume block counted from the first block
\* of the image.
GenVidPage_lnum_from_0(blk) ==
    IF ULt(blk, UBI_LAYOUT_VOLUME_EBS)
    THEN VidPage(VidHdr(UBI_LAYOUT_VOLUME_TYPE, UBI_LAYOUT_VOLUME_COMPAT,
                        UBI_LAYOUT_VOLUME_ID, blk))
    ELSE IF ULt(blk, UAdd(args.vol_lebs, UBI_LAYOUT_VOLUME_EBS))
    THEN VidPage(VidHdr(UBI_VID_DYNAMIC, 0, args.vol_id, blk))
    ELSE FFPage

\* The VID header of block blk: layout volume, data volume, or none.
GenVidPage(blk) ==
    IF ULt(blk, UBI_LAYOUT_VOLUME_EBS)
    THEN VidPage(VidHdr(UBI_LAYOUT_VOLUME_TYPE, UBI_LAYOUT_VOLUME_COMPAT,
                        UBI_LAYOUT_VOLUME_ID, blk))
    ELSE IF ULt(blk, UAdd(args.vol_lebs, UBI_LAYOUT_VOLUME_EBS))
    THEN VidPage(VidHdr(UBI_VID_DYNAMIC, 0, args.vol_id,
                        USub(blk, UBI_LAYOUT_VOLUME_EBS)))
    ELSE FFPage

\* The loop of line 289 dropped: every call takes a new image_seq.
image_seq_fresh(seq) == seq

\* The static image_seq after the loop of lines 289-290, where seq is the
\* value of gen_image_seq that ends it.
image_seq_of(seq) == IF image_seq = 0 THEN seq ELSE image_seq

\* eb_gen_data(mtd, ifd, block_buf, &data_left), where seq is what
\* gen_image_seq returns and name what strlen and strcpy find at args.vol_name:
\* its return value, and block_buf, *data_left, the input offset and the two
\* statics after it.
eb_gen_data(seq, name) ==
    LET data_ofs == mtd.min_io_size * 2
        iseq == image_seq_of(seq)
        cap  == IF args.ubi # 0 THEN mtd.eb_size - data_ofs ELSE mtd.eb_size
        want == IF ULt(cap, data_left) THEN cap ELSE data_left
        rd   == data_read(ipos, want)
        hdrs == [q \in Pages |->
                    IF q = 0 THEN EcPage(iseq)
                    ELSE IF q * mtd.min_io_size = mtd.min_io_size THEN GenVidPage(blk_no)
                    ELSE FFPage]
        old  == [ret |-> -1, buf |-> hdrs, data_left |-> data_left, ipos |-> ipos,
                 blk_no |-> blk_no, image_seq |-> iseq]
    IN  IF args.ubi # 0
        THEN IF ULt(blk_no, UBI_LAYOUT_VOLUME_EBS)
             THEN [old EXCEPT
                     !.ret = LayoutLen(mtd),
                     !.buf = [q \in Pages |->
                                IF q * mtd.min_io_size < data_ofs THEN hdrs[q]
                                ELSE VtblPage(q, data_ofs,
                                              VtblGen(args.vol_id, args.vol_lebs, name))],
                     !.blk_no = UAdd(blk_no, 1)]
             ELSE IF ULt(blk_no, UAdd(args.vol_lebs, UBI_LAYOUT_VOLUME_EBS))
             THEN IF rd.ret < 0 THEN [old EXCEPT !.ipos = rd.pos]
                  ELSE [old EXCEPT
                          !.ret = rd.ret + data_ofs,
                          !.buf = [q \in Pages |->
                                     IF q * mtd.min_io_size < data_ofs THEN hdrs[q]
                                     ELSE DataPage(q, data_ofs, ipos, rd.ret)],
                          !.data_left = USub(data_left, rd.ret),
                          !.ipos = rd.pos,
                          !.blk_no = UAdd(blk_no, 1)]
             ELSE [old EXCEPT !.ret = UBI_EC_HDR_SIZE, !.blk_no = UAdd(blk_no, 1)]
        ELSE IF rd.ret < 0
             THEN [old EXCEPT !.buf = ErasedPeb, !.ipos = rd.pos, !.image_seq = image_seq]
             ELSE [ret |-> rd.ret,
                   buf |-> [q \in Pages |-> DataPage(q, 0, ipos, rd.ret)],
                   data_left |-> USub(data_left, rd.ret),
                   ipos |-> rd.pos,
                   blk_no |-> UAdd(blk_no, 1),
                   image_seq |-> image_seq]

\* ------------------------------------------------------------ eb_write

\* WriteIters with the loop ending at the last page that lies wholly below
\* data_len.
WriteIters_whole_pages(dlen) ==
    Max(dlen \div mtd.min_io_size, IF args.clm # 0 THEN 1 ELSE 0)

\* The iterations of the page loop of eb_write when no page write fails.
WriteIters(dlen) ==
    Max((dlen + mtd.min_io_size - 1) \div mtd.min_io_size, IF args.clm # 0 THEN 1 ELSE 0)

\* PageWrite without line 432: write_clm is never cleared, so every page of
\* the PEB carries the clean marker.
PageWrite_clm_kept(eb, buf, q, ret) ==
    Call("write", eb, q * mtd.min_io_size, ~IsFF(buf[q]), args.clm # 0, ret)

\* The mtd_write call of iteration q: the main area is passed unless the page
\* is all 0xFF, the clean marker on the first iteration in clean-marker mode.
PageWrite(eb, buf, q, ret) ==
    Call("write", eb, q * mtd.min_io_size, ~IsFF(buf[q]), args.clm # 0 /\ q = 0, ret)

\* MarkOnFail without the condition of line 427.
MarkOnFail_always(dlen) == TRUE

\* Whether eb_write marks the PEB bad after a failed page write (line 427).
MarkOnFail(dlen) == UMod(dlen, mtd.eb_size) = 0

\* eb_write(mtd, fd, addr, dlen, buf) when the page write of iteration f fails
\* (none when f = WriteIters(dlen)), and then mtd_is_bad answers r, mtd_erase e
\* and mtd_mark_bad m: its return value, the MTD calls it issues, the contents
\* of the PEB after it (old before it) and whether the PEB got marked bad.
eb_write(addr, dlen, buf, old, f, r, e, m) ==
    LET eb   == UDiv(addr, mtd.eb_size)
        n    == WriteIters(dlen)
        fail == f < n
        done == IF fail THEN f + 1 ELSE n
        wr   == [i \in 1 .. done |-> PageWrite(eb, buf, i - 1, IF i - 1 = f THEN -1 ELSE 0)]
        er   == eb_erase(addr, r, e)
        mark == MarkOnFail(dlen)
        prog == [q \in Pages |->
                    IF q < done /\ ~IsFF(buf[q])
                    THEN (IF q = f THEN GarbagePage ELSE Program(old[q], buf[q]))
                    ELSE old[q]]
    IN  IF dlen = 0 /\ args.clm = 0
        THEN [ret |-> 0, calls |-> <<>>, peb |-> old, marked |-> FALSE]
        ELSE IF ~fail
        THEN [ret |-> 0, calls |-> wr, peb |-> prog, marked |-> FALSE]
        ELSE [ret |-> -1,
              calls |-> wr \o er.calls
                        \o (IF mark THEN <<Call("mark_bad", eb, 0, FALSE, FALSE, m)>>
                            ELSE <<>>),
              peb |-> IF er.erased THEN ErasedPeb ELSE prog,
              marked |-> mark /\ m = 0]

\* ------------------------------------------------------------ main: validation

\* main(), from process_options to the erase pass, when strlen(args.vol_name)
\* on a null args.vol_name behaves as ub says ("segv": the run is killed,
\* "short": it yields at most UBI_VOL_NAME_MAX, "long": more).  die: the run
\* ends with EXIT_FAILURE; otherwise start, end, image_size, the resolved
\* vol_lebs and the input offset are as main() leaves them.
ValidateOn(m, ub) ==
    LET st  == UMul(args.start, m.eb_size)
        en  == IF args.blocks # 0 THEN UAdd(st, UMul(args.blocks, m.eb_size))
               ELSE m.size
        isz == IF args.std_in # 0 THEN args.length
               ELSE IF args.img_file # 0
               THEN (IF args.length # 0 THEN args.length ELSE USub(inp.size, args.skip))
               ELSE 0
        leb_size == m.eb_size - (m.min_io_size * 2)
        tot_lebs == USub(UDiv(USub(en, st), m.eb_size), UBI_LAYOUT_VOLUME_EBS)
        vol_lebs == IF args.vol_lebs = 0 THEN tot_lebs - DEFAULT_SPARE_LEBS
                    ELSE IF args.vol_lebs < 0 THEN UAdd(tot_lebs, args.vol_lebs)
                    ELSE args.vol_lebs
        name_len == IF args.vol_name = NULLPTR
                    THEN (IF ub = "long" THEN UBI_VOL_NAME_MAX + 1 ELSE 0)
                    ELSE strlen(args.vol_name)
        early == \/ args.img_file # 0 /\ args.std_in # 0
                 \/ args.ubi # 0 /\ HasInput /\ args.vol_name = NULLPTR
                 \/ ULt(m.size - m.eb_size, st)
                 \/ ULt(m.size, en)
                 \/ args.std_in # 0 /\ args.skip # 0
                 \/ args.std_in = 0 /\ args.img_file # 0
                    /\ ULt(inp.size, UAdd(args.skip, args.length))
                 \/ ~HasInput /\ (args.length # 0 \/ args.skip # 0)
                 \/ args.ubi # 0 /\ (vol_lebs < 0 \/ vol_lebs > tot_lebs)
                 \/ args.ubi # 0 /\ ULt(UMul(vol_lebs, leb_size), isz)
                 \/ args.ubi = 0 /\ ULt(USub(en, st), isz)
        segv == ~early /\ args.ubi # 0 /\ args.vol_name = NULLPTR /\ ub = "segv"
        die == early \/ (args.ubi # 0 /\ ~segv /\ name_len > UBI_VOL_NAME_MAX)
    IN  [die |-> die, segv |-> segv, start |-> st, end |-> en, image_size |-> isz,
         vol_lebs |-> IF args.ubi # 0 THEN vol_lebs ELSE args.vol_lebs,
         ipos |-> IF args.std_in = 0 /\ args.img_file # 0 THEN args.skip ELSE 0]

\* The same on the device of the model.
Validate(ub) == ValidateOn(mtd, ub)

\* What strlen may do: on a null pointer anything, on a string one thing.
UbOutcomes(s) == IF s = NULLPTR THEN {"segv", "short", "long"} ELSE {"short"}

\* ------------------------------------------------------------ main: the actions

\* Lines 612-627: the exit status after the write pass.
Finish(dl, isz) ==
    /\ pc' = "exit"
    /\ exit_code' = IF dl = 0 \/ isz = 0 THEN EXIT_SUCCESS ELSE EXIT_FAILURE

\* Lines 580-590: after the erase pass, into the write pass.
EnterWrite(a, st, en, isz) ==
    IF isz = 0 /\ a.std_in = 0 /\ a.ubi = 0
    THEN /\ pc' = "exit"
         /\ exit_code' = EXIT_SUCCESS
         /\ UNCHANGED <<data_left>>
    ELSE LET dl == IF isz # 0 THEN isz ELSE -1
         IN  /\ data_left' = dl
             /\ IF ULt(st, en)
                THEN pc' = "gen" /\ UNCHANGED exit_code
                ELSE Finish(dl, isz)

\* main() up to the first eb_erase call.
main_start ==
    /\ pc = "start"
    /\ \E ub \in UbOutcomes(IF args.ubi # 0 THEN args.vol_name ELSE <<>>) :
         \E v \in {Validate(ub)} : \E a \in {[args EXCEPT !.vol_lebs = v.vol_lebs]} :
             IF v.die \/ v.segv
             THEN /\ pc' = IF v.die THEN "rejected" ELSE "killed"
                  /\ exit_code' = IF v.die THEN EXIT_FAILURE ELSE EXIT_SIGSEGV
                  /\ UNCHANGED <<args, start, end, eb_addr, image_size, data_left, ipos>>
             ELSE /\ args' = a
                  /\ start' = v.start
                  /\ end' = v.end
                  /\ image_size' = v.image_size
                  /\ ipos' = v.ipos
                  /\ eb_addr' = v.start
                  /\ IF ULt(v.start, v.end)
                     THEN pc' = "erase" /\ UNCHANGED <<exit_code, data_left>>
                     ELSE EnterWrite(a, v.start, v.end, v.image_size)
    /\ UNCHANGED <<cmd, inp, bad, flash, faults, log, data_len, block_buf, blk_no,
                   image_seq, hist>>
    /\ UNCHANGED <<geo, dvars, cvars>>

\* One iteration of the erase pass (lines 577-578), and what follows the last.
main_erase ==
    /\ pc = "erase"
    /\ \E r \in IsBadOutcomes(UDiv(eb_addr, mtd.eb_size)), e \in IoOutcomes :
         LET er   == eb_erase(eb_addr, r, e)
             eb   == UDiv(eb_addr, mtd.eb_size)
             next == UAdd(eb_addr, mtd.eb_size)
         IN  /\ r # 0 => e = 0
             /\ faults + Cost(r) + Cost(e) <= MaxFaults
             /\ faults' = faults + Cost(r) + Cost(e)
             /\ log' = Append(log, Invoked("eb_erase", eb_addr, 0, er.calls, er.ret))
             /\ flash' = IF er.erased THEN [flash EXCEPT ![eb] = ErasedPeb] ELSE flash
             /\ IF ULt(next, end)
                THEN /\ eb_addr' = next
                     /\ UNCHANGED <<pc, exit_code, data_left>>
                ELSE /\ eb_addr' = start
                     /\ EnterWrite(args, start, end, image_size)
    /\ UNCHANGED <<cmd, args, inp, bad, start, end, image_size, data_len, block_buf,
                   blk_no, image_seq, ipos, hist>>
    /\ UNCHANGED <<geo, dvars, cvars>>

\* The values gen_image_seq may return that end the loop around it.
ImageSeqs == {1, 305419896}

\* eb_gen_data at the head of the write loop (lines 590-594).
main_gen ==
    /\ pc = "gen"
    /\ \E seq \in (IF args.ubi # 0 /\ image_seq = 0 THEN ImageSeqs ELSE {1}),
          ub \in UbOutcomes(IF args.ubi # 0 /\ ULt(blk_no, UBI_LAYOUT_VOLUME_EBS)
                            THEN args.vol_name ELSE <<>>) :
         IF ub = "segv"
         THEN /\ pc' = "killed"
              /\ exit_code' = EXIT_SIGSEGV
              /\ UNCHANGED <<data_left, data_len, block_buf, blk_no, image_seq, ipos, hist>>
         ELSE \E g \in {eb_gen_data(seq, IF args.vol_name = NULLPTR
                                          THEN (IF ub = "long" THEN Str(1) ELSE <<>>)
                                          ELSE args.vol_name)} :
                  /\ block_buf' = g.buf
                  /\ data_left' = g.data_left
                  /\ ipos' = g.ipos
                  /\ blk_no' = g.blk_no
                  /\ image_seq' = g.image_seq
                  /\ IF g.ret < 0
                     THEN /\ Finish(data_left, image_size)
                          /\ hist' = Append(hist, [data_len |-> g.ret, eb |-> -1,
                                                   onbad |-> FALSE])
                          /\ UNCHANGED data_len
                     ELSE /\ data_len' = g.ret
                          /\ pc' = "write"
                          /\ hist' = Append(hist, [data_len |-> g.ret, eb |-> -1,
                                                   onbad |-> FALSE])
                          /\ UNCHANGED exit_code
    /\ UNCHANGED <<cmd, args, inp, bad, flash, faults, log, start, end, eb_addr,
                   image_size>>
    /\ UNCHANGED <<geo, dvars, cvars>>

\* write_retry that leaves the inner loop: the next PEB gets a new block.
write_regen(next) ==
    IF ULt(next, end)
    THEN /\ eb_addr' = next
         /\ pc' = "gen"
         /\ UNCHANGED exit_code
    ELSE /\ eb_addr' = UAdd(next, mtd.eb_size)
         /\ Finish(data_left, image_size)

\* write_retry that stays on the PEB that failed.
write_retry_same_peb(next) ==
    /\ eb_addr' = eb_addr
    /\ UNCHANGED <<pc, exit_code>>

\* write_retry bounded by the device instead of the window.
write_retry_to_device_end(next) ==
    IF ULt(next, mtd.size)
    THEN /\ eb_addr' = next
         /\ UNCHANGED <<pc, exit_code>>
    ELSE /\ eb_addr' = UAdd(next, mtd.eb_size)
         /\ Finish(data_left, image_size)

\* The loop control after eb_write failed (lines 606-609): on to the PEB at
\* next, or out of both loops at the end of the window.
write_retry(next) ==
    IF ULt(next, end)
    THEN /\ eb_addr' = next
         /\ UNCHANGED <<pc, exit_code>>
    ELSE /\ eb_addr' = UAdd(next, mtd.eb_size)
         /\ Finish(data_left, image_size)

\* One eb_write call of the retry loop (lines 596-609), and the loop control
\* around it.
main_write ==
    /\ pc = "write"
    /\ LET eb == UDiv(eb_addr, mtd.eb_size)
           n  == WriteIters(data_len)
       IN  \E f \in 0 .. n, r \in IsBadOutcomes(eb), e \in IoOutcomes, m \in IoOutcomes :
             LET w    == eb_write(eb_addr, data_len, block_buf, flash[eb], f, r, e, m)
                 cost == IF f < n THEN 1 ELSE 0
                 next == UAdd(eb_addr, mtd.eb_size)
             IN  /\ (f = n \/ (data_len = 0 /\ args.clm = 0)) => (r >= 0 /\ e = 0 /\ m = 0 /\ f = n)
                 /\ r # 0 => e = 0
                 /\ ~MarkOnFail(data_len) => m = 0
                 /\ faults + cost <= MaxFaults
                 /\ faults' = faults + cost
                 /\ log' = Append(log, Invoked("eb_write", eb_addr, data_len, w.calls, w.ret))
                 /\ flash' = [flash EXCEPT ![eb] = w.peb]
                 /\ bad' = IF w.marked THEN [bad EXCEPT ![eb] = TRUE] ELSE bad
                 /\ IF w.ret = 0
                    THEN /\ hist' = [hist EXCEPT ![Len(hist)].eb = eb,
                                                 ![Len(hist)].onbad = bad[eb]]
                         /\ eb_addr' = next
                         /\ IF ULt(next, end)
                            THEN pc' = "gen" /\ UNCHANGED exit_code
                            ELSE Finish(data_left, image_size)
                    ELSE /\ UNCHANGED hist
                         /\ write_retry(next)
    /\ UNCHANGED <<cmd, args, inp, start, end, image_size, data_left, data_len,
                   block_buf, blk_no, image_seq, ipos>>
    /\ UNCHANGED <<geo, dvars, cvars>>

Next == main_start \/ main_erase \/ main_gen \/ main_write

\* ------------------------------------------------------------ deubinize: reading the image

\* The variables deubinize leaves alone: those of the writer and of the
\* compression layer.
wvars == <<cmd, args, inp, bad, flash, faults, log, pc, start, end, eb_addr,
           image_size, data_left, data_len, block_buf, blk_no, image_seq,
           ipos, exit_code, hist, geo, cvars>>

\* The UBI image file is the dump of the device, PEB after PEB; st_size is its
\* size.
st_size == mtd.size

\* The page of the image that holds the byte at offset pos.
ImgPage(pos) == flash[pos \div mtd.eb_size][(pos % mtd.eb_size) \div mtd.min_io_size]

\* Header-sized reads of bytes that are all 0xFF, and of bytes that hold no
\* header.
FFHdr == [magic |-> -1]
JunkHdr == [magic |-> 0]

\* The header read at offset pos of the image.
HdrAt(pos) ==
    LET p == ImgPage(pos)
    IN  IF p.k \in {"ec", "vid"}
        THEN (IF pos % mtd.min_io_size = 0 THEN p.h ELSE FFHdr)
        ELSE IF p = FFPage THEN FFHdr
        ELSE JunkHdr

be32_to_cpu(x) == Swab32(x)

\* What read_headers returns on an error at file offset pos: imi is h.
HdrFail(pos, h) == [h EXCEPT !.ret = -1, !.pos = pos]

\* read_headers from line 221 on: the VID header vid was read at pos + vho.
read_vid_hdr(pos, h, vid) ==
    IF be32_to_cpu(vid.magic) = -1
    THEN [h EXCEPT !.ret = 0, !.vol_id = -1, !.lnum = -1,
                   !.pos = pos + h.vid_hdr_offset + UBI_VID_HDR_SIZE]
    ELSE IF be32_to_cpu(vid.magic) # UBI_VID_HDR_MAGIC THEN HdrFail(pos, h)
    ELSE IF be32_to_cpu(vid.hdr_crc) # Crc32(UBI_CRC32_INIT, VidCrcFields(vid))
    THEN HdrFail(pos, h)
    ELSE [h EXCEPT !.ret = 0, !.vol_id = be32_to_cpu(vid.vol_id),
                   !.lnum = be32_to_cpu(vid.lnum), !.pos = pos + h.data_offset]

\* read_headers from line 208 on: the EC header was good and gave imi h.
read_ec_offsets(pos, h) ==
    IF ~ULt(h.data_offset, dargs.peb_size) THEN HdrFail(pos, h)
    ELSE IF pos + h.vid_hdr_offset + UBI_VID_HDR_SIZE > st_size THEN HdrFail(pos, h)
    ELSE read_vid_hdr(pos, h, HdrAt(pos + h.vid_hdr_offset))

\* read_headers from line 200 on: the EC header ec was read at pos.
read_ec_hdr(pos, ec) ==
    IF be32_to_cpu(ec.magic) # UBI_EC_HDR_MAGIC
    THEN HdrFail(pos, [ret |-> -1, vid_hdr_offset |-> 0, data_offset |-> 0, vol_id |-> 0,
                       lnum |-> 0, pos |-> pos])
    ELSE IF be32_to_cpu(ec.hdr_crc) # Crc32(UBI_CRC32_INIT, EcCrcFields(ec))
    THEN HdrFail(pos, [ret |-> -1, vid_hdr_offset |-> 0, data_offset |-> 0, vol_id |-> 0,
                       lnum |-> 0, pos |-> pos])
    ELSE read_ec_offsets(pos, [ret |-> -1,
                               vid_hdr_offset |-> be32_to_cpu(ec.vid_hdr_offset),
                               data_offset |-> be32_to_cpu(ec.data_offset),
                               vol_id |-> 0, lnum |-> 0, pos |-> pos])

\* read_headers(fd, imi) with the file offset at pos: its return value, the
\* fields of *imi it sets, and the file offset it leaves.
read_headers(pos) ==
    IF pos + UBI_EC_HDR_SIZE > st_size
    THEN [ret |-> -1, vid_hdr_offset |-> 0, data_offset |-> 0, vol_id |-> 0, lnum |-> 0,
          pos |-> pos]
    ELSE read_ec_hdr(pos, HdrAt(pos))

\* The loop of read_ubi_info over the PEBs of the image, from offset seek on,
\* until one holds a block of the layout volume; h is what read_headers
\* returned at seek.
RECURSIVE read_ubi_info_loop(_, _)
read_ubi_info_loop(seek, h) ==
    IF h.ret # 0 THEN h
    ELSE IF h.vol_id = UBI_LAYOUT_VOLUME_ID THEN h
    ELSE IF seek + dargs.peb_size >= st_size THEN [h EXCEPT !.ret = -1]
    ELSE read_ubi_info_loop(seek + dargs.peb_size, read_headers(seek + dargs.peb_size))

\* A volume table record read from bytes that are no record of a table: its
\* CRC does not match.
BadRec == [ZeroRec EXCEPT !.crc = -1]

\* The volume table record read at offset pos of the image.
VtblRecAt(pos) ==
    LET p   == ImgPage(pos)
        off == p.from + (pos % mtd.min_io_size)
    IN  IF p.k = "vtbl" /\ off % UBI_VTBL_RECORD_SIZE = 0
        THEN VtblSlot(p.t, off \div UBI_VTBL_RECORD_SIZE)
        ELSE BadRec

VtblCrcOk(r) == be32_to_cpu(r.crc) = Crc32(UBI_CRC32_INIT, VtblCrcFields(r))

\* strncmp and strnlen on C strings.
Take(a, n) == SubSeq(a, 1, Min(Len(a), n))

\* strncmp that compares no more characters than its first argument has.
strncmp_prefix(a, b, n) ==
    IF Take(a, Min(n, Len(a))) = Take(b, Min(n, Len(a))) THEN 0 ELSE 1

strncmp(a, b, n) == IF Take(a, n) = Take(b, n) THEN 0 ELSE 1
strnlen(a, n) == Min(Len(a), n)

\* The loop of read_ubi_info over the records of the table at offset pos, by
\* name: the index of the first record with the name, UBI_MAX_VOLUMES when
\* none has it, -1 when a read or a CRC check fails before.
vol_ix_of_name(pos) ==
    LET At(i)  == pos + i * UBI_VTBL_RECORD_SIZE
        Slots  == 0 .. (UBI_MAX_VOLUMES - 1)
        Broken == {i \in Slots : At(i) + UBI_VTBL_RECORD_SIZE > st_size
                                 \/ ~VtblCrcOk(VtblRecAt(At(i)))}
        Named  == {i \in Slots \ Broken :
                     strncmp(dargs.vol_name, VtblRecAt(At(i)).name, UBI_VOL_NAME_MAX) = 0}
        Stops  == Broken \cup Named
        first  == CHOOSE i \in Stops : \A j \in Stops : i <= j
    IN  IF Stops = {} THEN UBI_MAX_VOLUMES
        ELSE IF first \in Broken THEN -1
        ELSE first

\* What read_ubi_info returns and leaves in *imi, args.vol_index and
\* args.vol_name.
UbiInfo(ret, h, vol_index, vol_name) ==
    [ret |-> ret,
     imi |-> [size |-> st_size, vid_hdr_offset |-> h.vid_hdr_offset,
              data_offset |-> h.data_offset, vol_id |-> h.vol_id, lnum |-> h.lnum],
     vol_index |-> vol_index, vol_name |-> vol_name]

\* read_ubi_info, lines 276-295: ix is where the loop over the records ended.
vol_by_name(h, ix) ==
    IF ix < 0 \/ ix >= UBI_MAX_VOLUMES THEN UbiInfo(-1, h, dargs.vol_index, dargs.vol_name)
    ELSE UbiInfo(0, h, ix, dargs.vol_name)

\* read_ubi_info, lines 299-313: r is the record at index args.vol_index, read
\* at offset seek.
vol_by_index(h, seek, r) ==
    IF seek + UBI_VTBL_RECORD_SIZE > st_size
    THEN UbiInfo(-1, h, dargs.vol_index, dargs.vol_name)
    ELSE IF ~VtblCrcOk(r) THEN UbiInfo(-1, h, dargs.vol_index, dargs.vol_name)
    ELSE IF strnlen(r.name, UBI_VOL_NAME_MAX) = 0
    THEN UbiInfo(-1, h, dargs.vol_index, dargs.vol_name)
    ELSE UbiInfo(0, h, dargs.vol_index, Take(r.name, UBI_VOL_NAME_MAX))

\* read_ubi_info from line 274 on: h is what the loop over the PEBs found.
vol_lookup(h) ==
    IF h.ret # 0 THEN UbiInfo(-1, h, dargs.vol_index, dargs.vol_name)
    ELSE IF dargs.vol_name # NULLPTR THEN vol_by_name(h, vol_ix_of_name(h.pos))
    ELSE vol_by_index(h, h.pos + dargs.vol_index * UBI_VTBL_RECORD_SIZE,
                      VtblRecAt(h.pos + dargs.vol_index * UBI_VTBL_RECORD_SIZE))

\* read_ubi_info(in_fd, imi): its return value, *imi, and args.vol_index and
\* args.vol_name after it.
read_ubi_info == vol_lookup(read_ubi_info_loop(0, read_headers(0)))

\* The n bytes read at offset pos of the image, page by page.
DataAt(pos, n) ==
    [j \in 0 .. ((n + mtd.min_io_size - 1) \div mtd.min_io_size) - 1 |->
        ImgPage(pos + j * mtd.min_io_size)]

\* ------------------------------------------------------------ deubinize: the actions

\* parse_opt for a command line that names the image, the output file, the
\* PEB size and the volume: by index when by_index, by name otherwise; s is 1
\* with -s.
parse_opt(by_index, name, index, s) ==
    /\ dargs' = [peb_size |-> mtd.eb_size,
                 vol_index |-> IF by_index THEN index ELSE 0,
                 vol_name |-> IF by_index THEN NULLPTR ELSE name,
                 skip_bad |-> s]
    /\ dreq' = [vol_name |-> IF by_index THEN NULLPTR ELSE name,
                vol_index |-> IF by_index THEN index ELSE 0,
                info |-> -2]
    /\ IF by_index /\ (index < 0 \/ index >= UBI_MAX_VOLUMES)
       THEN dpc' = "done" /\ dret' = EXIT_FAILURE
       ELSE dpc' = "info" /\ UNCHANGED dret
    /\ UNCHANGED <<imi, r_seek, out, wvars>>

\* deubinize run on the image the writer left, for the writer's volume, by
\* name or by index.
deubinize_parse_opt ==
    /\ dpc = "off" /\ pc = "exit"
    /\ \E by_index \in BOOLEAN, s \in 0 .. 1 :
         parse_opt(by_index, cmd.vol_name, cmd.vol_id, s)

\* The volumes a deubinize command line may name.
AskedNames == {Str(1), Str(2)}
AskedIndexes == {0, 3, UBI_MAX_VOLUMES}

\* deubinize run on the image the writer left, for any volume.
deubinize_parse_any ==
    /\ dpc = "off" /\ pc = "exit"
    /\ \E by_index \in BOOLEAN, s \in 0 .. 1, name \in AskedNames, index \in AskedIndexes :
         parse_opt(by_index, name, index, s)

\* main() after read_ubi_info returned u (lines 404-421).
after_ubi_info(u) ==
    /\ imi' = u.imi
    /\ dargs' = [dargs EXCEPT !.vol_index = u.vol_index, !.vol_name = u.vol_name]
    /\ dreq' = [dreq EXCEPT !.info = u.ret]
    /\ IF u.ret # 0
       THEN dpc' = "done" /\ dret' = EXIT_FAILURE
       ELSE dpc' = "extract" /\ UNCHANGED dret

\* main() from stat to the open of the output file (lines 385-421).
deubinize_info ==
    /\ dpc = "info"
    /\ IF st_size = 0 \/ st_size % dargs.peb_size # 0
       THEN dpc' = "done" /\ dret' = EXIT_FAILURE /\ UNCHANGED <<dargs, imi, dreq>>
       ELSE after_ubi_info(read_ubi_info)
    /\ UNCHANGED <<r_seek, out, wvars>>

\* extract_peb with w_seek taken from the place of the PEB in the image
\* instead of its lnum.
extract_peb_in_file_order(h, data_size) ==
    IF (h.ret # 0 /\ dargs.skip_bad = 0) \/ (h.ret = 0 /\ h.vol_id = dargs.vol_index
                                              /\ h.pos + data_size > st_size)
    THEN dpc' = "done" /\ dret' = EXIT_FAILURE /\ UNCHANGED <<out, r_seek>>
    ELSE /\ out' = IF h.ret # 0 \/ h.vol_id # dargs.vol_index THEN out
                   ELSE (UMul(r_seek \div dargs.peb_size, data_size)
                            :> DataAt(h.pos, data_size)) @@ out
         /\ r_seek' = r_seek + dargs.peb_size
         /\ IF r_seek + dargs.peb_size < st_size THEN UNCHANGED <<dpc, dret>>
            ELSE dpc' = "done" /\ dret' = EXIT_SUCCESS

\* One iteration of the loop of extract_volume_data after read_headers
\* returned h, and main() after the loop when it was the last.
extract_peb(h, data_size) ==
    IF (h.ret # 0 /\ dargs.skip_bad = 0) \/ (h.ret = 0 /\ h.vol_id = dargs.vol_index
                                              /\ h.pos + data_size > st_size)
    THEN dpc' = "done" /\ dret' = EXIT_FAILURE /\ UNCHANGED <<out, r_seek>>
    ELSE /\ out' = IF h.ret # 0 \/ h.vol_id # dargs.vol_index THEN out
                   ELSE (UMul(h.lnum, data_size) :> DataAt(h.pos, data_size)) @@ out
         /\ r_seek' = r_seek + dargs.peb_size
         /\ IF r_seek + dargs.peb_size < st_size THEN UNCHANGED <<dpc, dret>>
            ELSE dpc' = "done" /\ dret' = EXIT_SUCCESS

deubinize_extract ==
    /\ dpc = "extract"
    /\ extract_peb(read_headers(r_seek), USub(dargs.peb_size, imi.data_offset))
    /\ UNCHANGED <<dargs, imi, dreq, wvars>>

\* A writer run and then a deubinize run on the image it left.
NextRT ==
    \/ main_start \/ main_erase \/ main_gen \/ main_write
    \/ deubinize_parse_opt \/ deubinize_info \/ deubinize_extract

\* ------------------------------------------------------------ the compression layer

\* A build with LZO and LZMA compiled in, and the builds there are
\* (WITHOUT_LZO, WITHOUT_LZMA).
FullBuild == [lzo |-> TRUE, lzma |-> TRUE]
Builds == [lzo : BOOLEAN, lzma : BOOLEAN]

\* The compression layer before init_compression, in the build b with
\* c->favor_lzo = fav.  A pointer is "null", a "live" block, or a block
\* that was "freed".
ComprIdle(b, fav) ==
    /\ cpc = "idle" /\ build = b /\ info_ = [favor_lzo |-> fav]
    /\ lzo_mem = "null" /\ zlib_buf = "null" /\ lzma_p = "null"
    /\ ic_ret = 0 /\ errcnt = 0 /\ ctype = ""

\* malloc: a live block, or the null pointer.
MallocOutcomes == {"live", "null"}

\* free(p) is defined on the null pointer and on a live block.
FreeIsDefined(p) == p # "freed"
Freed(p) == IF p = "null" THEN "null" ELSE "freed"

\* lzo_init (lines 92-99, 126) when malloc gives m: its return value and
\* lzo_mem after it.
lzo_init(m) ==
    IF build.lzo THEN [ret |-> IF m = "null" THEN -1 ELSE 0, mem |-> m]
    ELSE [ret |-> 0, mem |-> lzo_mem]

\* lzo_fini (lines 101-104, 127): lzo_mem after it.
lzo_fini == IF build.lzo THEN Freed(lzo_mem) ELSE lzo_mem

\* What lzma_init meets: LzmaEnc_Create fails, LzmaEnc_SetProps fails,
\* LzmaEnc_WriteProperties fails, or none of them.
LzmaOutcomes == {"create", "props", "write", "ok"}

\* lzma_init (lines 147-189, 217) when it meets o: its return value and
\* lzma_ctx.p after it.
lzma_init(o) ==
    IF ~build.lzma THEN [ret |-> 0, p |-> lzma_p]
    ELSE IF o = "create" THEN [ret |-> -1, p |-> "null"]
    ELSE IF o = "ok" THEN [ret |-> 0, p |-> "live"]
    ELSE [ret |-> -1, p |-> "freed"]

\* The variables the compression layer leaves alone.
rvars == <<cmd, args, inp, bad, flash, faults, log, pc, start, end, eb_addr,
           image_size, data_left, data_len, block_buf, blk_no, image_seq,
           ipos, exit_code, hist, geo, dvars>>

\* init_compression, lines 321-323.
ic_lzo_init ==
    /\ cpc = "idle"
    /\ \E m \in MallocOutcomes :
         \E r \in {lzo_init(m)} :
             /\ lzo_mem' = r.mem
             /\ ic_ret' = r.ret
             /\ cpc' = IF r.ret # 0 THEN "err" ELSE "zlib"
    /\ UNCHANGED <<build, info_, zlib_buf, lzma_p, errcnt, ctype, rvars>>

\* init_compression, lines 325-327.
ic_zlib_alloc ==
    /\ cpc = "zlib"
    /\ \E m \in MallocOutcomes :
         /\ zlib_buf' = m
         /\ cpc' = IF m = "null" THEN "err_lzo" ELSE "lzma"
    /\ UNCHANGED <<build, info_, lzo_mem, lzma_p, ic_ret, errcnt, ctype, rvars>>

\* init_compression, lines 329-333.
ic_lzma_init ==
    /\ cpc = "lzma"
    /\ \E o \in LzmaOutcomes :
         \E r \in {lzma_init(o)} :
             /\ lzma_p' = r.p
             /\ ic_ret' = r.ret
             /\ cpc' = IF r.ret # 0 THEN "err_zlib" ELSE "ret"
    /\ UNCHANGED <<build, info_, lzo_mem, zlib_buf, errcnt, ctype, rvars>>

\* init_compression, lines 335-336.
ic_err_zlib ==
    /\ cpc = "err_zlib"
    /\ zlib_buf' = Freed(zlib_buf)
    /\ cpc' = "err_lzo"
    /\ UNCHANGED <<build, info_, lzo_mem, lzma_p, ic_ret, errcnt, ctype, rvars>>

\* init_compression, lines 337-338.
ic_err_lzo ==
    /\ cpc = "err_lzo"
    /\ lzo_mem' = lzo_fini
    /\ cpc' = "err"
    /\ UNCHANGED <<build, info_, zlib_buf, lzma_p, ic_ret, errcnt, ctype, rvars>>

\* init_compression, lines 339-340.
ic_err ==
    /\ cpc = "err"
    /\ cpc' = "ret"
    /\ UNCHANGED <<build, info_, lzo_mem, zlib_buf, lzma_p, ic_ret, errcnt, ctype, rvars>>

\* The compression types a caller may pass; "other" is a value that is none
\* of the MKFS_UBIFS_COMPR_ constants.
ComprTypes == {"NONE", "LZO", "ZLIB", "LZMA", "other"}

\* compress_data(in_buf, in_len, out_buf, out_len, type) (lines 278-315):
\* short is in_len < UBIFS_MIN_COMPR_LEN; lz, zl and lm are what the LZO,
\* zlib and LZMA libraries answer; pick is the compressor
\* favor_lzo_compress selects when both succeed; shrink is *out_len <
\* in_len for the output selected.  Its return value and what it adds to
\* errcnt.
compress(type, short, lz, zl, lm, pick, shrink) ==
    LET lzo_ret  == IF build.lzo THEN lz ELSE -1
        lzo_err  == IF build.lzo /\ lz # 0 THEN 1 ELSE 0
        zlib_err == IF zl # 0 THEN 1 ELSE 0
        lzma_ret == IF build.lzma THEN lm ELSE -1
        Out(t, r, e) == [ret |-> IF r # 0 \/ ~shrink THEN "NONE" ELSE t, errs |-> e]
    IN  IF short THEN [ret |-> "NONE", errs |-> 0]
        ELSE IF info_.favor_lzo
        THEN (IF lzo_ret # 0 /\ zl # 0 THEN Out("LZO", -1, lzo_err + zlib_err)
              ELSE IF lzo_ret = 0 /\ zl = 0 THEN Out(pick, 0, 0)
              ELSE IF lzo_ret # 0 THEN Out("ZLIB", 0, lzo_err)
              ELSE Out("LZO", 0, zlib_err))
        ELSE CASE type = "LZO" -> Out("LZO", lzo_ret, lzo_err)
               [] type = "ZLIB" -> Out("ZLIB", zl, zlib_err)
               [] type = "LZMA" -> Out("LZMA", lzma_ret, 0)
               [] type = "NONE" -> Out("NONE", 1, 0)
               [] OTHER -> Out("NONE", 1, 1)

\* The call hands a block that is not live to a compressor: lzo_mem to
\* lzo1x_999_compress, zlib_buf to deflate, lzma_ctx.p to LzmaEnc_MemEncode.
UsesDeadBlock(type, short) ==
    /\ ~short
    /\ \/ build.lzo /\ (info_.favor_lzo \/ type = "LZO") /\ lzo_mem # "live"
       \/ info_.favor_lzo /\ zlib_buf # "live"
       \/ build.lzma /\ ~info_.favor_lzo /\ type = "LZMA" /\ lzma_p # "live"

\* A compress_data call of a caller that saw init_compression return 0.
\* Its behaviour is undefined when it uses a block that is not live: the
\* process may be killed, or go on.
compress_data ==
    /\ cpc = "ret" /\ ic_ret = 0
    /\ \E type \in ComprTypes, short \in BOOLEAN, lz \in {0, -1}, zl \in {0, -1},
          lm \in {0, -1}, pick \in {"LZO", "ZLIB"}, shrink \in BOOLEAN :
         \E r \in {compress(type, short, lz, zl, lm, pick, shrink)} :
             /\ errcnt + r.errs <= MaxErrcnt
             /\ errcnt' = errcnt + r.errs
             /\ ctype' = r.ret
             /\ \/ UNCHANGED cpc
                \/ /\ UsesDeadBlock(type, short)
                   /\ cpc' = "killed"
    /\ UNCHANGED <<build, info_, lzo_mem, zlib_buf, lzma_p, ic_ret, rvars>>

\* destroy_compression (lines 343-350) of a caller that saw init_compression
\* return 0.  Destroying an encoder that is not live and freeing a block
\* twice are undefined: the process may be killed, or go on.
destroy_compression ==
    /\ cpc = "ret" /\ ic_ret = 0
    /\ lzma_p' = IF build.lzma THEN Freed(lzma_p) ELSE lzma_p
    /\ zlib_buf' = Freed(zlib_buf)
    /\ lzo_mem' = lzo_fini
    /\ \/ cpc' = "destroyed"
       \/ /\ \/ ~FreeIsDefined(zlib_buf)
             \/ build.lzo /\ ~FreeIsDefined(lzo_mem)
             \/ build.lzma /\ lzma_p # "live"
          /\ cpc' = "killed"
    /\ UNCHANGED <<build, info_, ic_ret, errcnt, ctype, rvars>>

NextCompr ==
    \/ ic_lzo_init \/ ic_zlib_alloc \/ ic_lzma_init
    \/ ic_err_zlib \/ ic_err_lzo \/ ic_err
    \/ compress_data \/ destroy_compression

\* ------------------------------------------------------------ initial states

\* The state of a run before main() starts: the command line a, the input i,
\* the bad PEBs b, and f0 of the budget of environment faults already spent.
\* The device holds stale data.
RunInit(a, i, b, f0) ==
    /\ cmd = a
    /\ args = a
    /\ inp = i
    /\ bad = b
    /\ flash = [p \in Pebs |-> StalePeb]
    /\ faults = f0
    /\ log = <<>>
    /\ pc = "start"
    /\ start = 0
    /\ end = 0
    /\ eb_addr = 0
    /\ image_size = 0
    /\ data_left = 0
    /\ data_len = 0
    /\ block_buf = ErasedPeb
    /\ blk_no = 0
    /\ image_seq = 0
    /\ ipos = 0
    /\ exit_code = -1
    /\ hist = <<>>
    /\ geo = mtd
    /\ dpc = "off"
    /\ dargs = [peb_size |-> -1, vol_index |-> 0, vol_name |-> NULLPTR, skip_bad |-> 0]
    /\ imi = [size |-> 0, vid_hdr_offset |-> 0, data_offset |-> 0, vol_id |-> 0, lnum |-> 0]
    /\ r_seek = 0
    /\ out = <<>>
    /\ dret = -1
    /\ dreq = [vol_name |-> NULLPTR, vol_index |-> 0, info |-> -2]

\* The same, with the compression layer not in use.
InitState(a, i, b, f0) == RunInit(a, i, b, f0) /\ ComprIdle(FullBuild, FALSE)

\* struct args of a command line that names the device only.
DefaultArgs ==
    [length |-> 0, skip |-> 0, blocks |-> 0, start |-> 0, vol_id |-> 0, vol_lebs |-> 0,
     std_in |-> 0, clm |-> 0, ubi |-> 0, vol_name |-> NULLPTR, img_file |-> 0]

LebSize == mtd.eb_size - 2 * mtd.min_io_size


NBad(b) == Cardinality({p \in Pebs : b[p]})
BadSets == {b \in [Pebs -> BOOLEAN] : NBad(b) <= MaxFaults}
NoBad == [p \in Pebs |-> FALSE]

\* Command lines that differ in the input options.
UsageArgs ==
    {[DefaultArgs EXCEPT !.std_in = s, !.img_file = f, !.ubi = u, !.vol_name = n,
                         !.skip = k, !.length = l, !.vol_lebs = u]
       : s \in 0 .. 1, f \in 0 .. 1, u \in 0 .. 1,
         n \in {NULLPTR, Str(1), Str(UBI_VOL_NAME_MAX + 1)},
         k \in {0, mtd.min_io_size}, l \in {0, 1, LebSize}}

\* Command lines that differ in the window and in the volume size.
WindowArgs ==
    {[DefaultArgs EXCEPT !.start = s, !.blocks = b, !.ubi = u, !.vol_lebs = v,
                         !.vol_name = Str(1)]
       : s \in {0, 1, DevPebs - 1, DevPebs, 65536},
         b \in {0, 1, 3, DevPebs, DevPebs + 1, 65535, 65536},
         u \in 0 .. 1, v \in {0, -1, -3, 1, 2, 3}}

\* Command lines of raw runs: with or without clean markers, on the whole
\* device or on two of its PEBs, from nothing, a file (with or without
\* --skip), stdin, or stdin with --length.
RawArgs ==
    {[DefaultArgs EXCEPT !.clm = c, !.std_in = i[1], !.img_file = i[2], !.length = i[3],
                         !.skip = i[4], !.start = w[1], !.blocks = w[2]]
       : c \in 0 .. 1,
         i \in {<<0, 0, 0, 0>>, <<0, 1, 0, 0>>, <<0, 1, 0, mtd.min_io_size>>,
                <<1, 0, 0, 0>>, <<1, 0, mtd.eb_size, 0>>},
         w \in {<<0, 0>>, <<1, 2>>}}

\* Command lines of UBI runs on the whole device: from nothing, a file or
\* stdin, a volume of one or two LEBs, a volume id inside and outside the
\* volume table, and one run without a volume name.
UbiArgs ==
    {a \in {[DefaultArgs EXCEPT !.ubi = 1, !.clm = c, !.std_in = i[1], !.img_file = i[2],
                                !.vol_lebs = v[1], !.vol_id = v[2], !.vol_name = v[3]]
              : c \in 0 .. 1,
                i \in {<<0, 0>>, <<0, 1>>, <<1, 0>>},
                v \in {<<1, 0, Str(1)>>, <<2, 1, Str(2)>>, <<1, 128, Str(1)>>,
                       <<1, 0, NULLPTR>>}}
       : /\ a.clm # 0 => (a.img_file # 0 /\ a.vol_id = 0)
         /\ a.vol_id # 0 => a.img_file # 0
         /\ a.vol_name = NULLPTR => (a.img_file = 0 /\ a.std_in = 0)}

\* An input of size bytes of pattern pat whose read() fails at offset err_at.
In(size, pat, err_at) ==
    [size |-> size, pat |-> pat, chunk |-> LebSize + (mtd.min_io_size \div 2),
     err_at |-> err_at]

\* No input source.
NoInput == In(0, "idx", -1)

\* The inputs a command line is run on: sizes around a page, a block and the
\* window, and a read() that fails at once or never.
RunInputs(a) ==
    IF a.std_in = 0 /\ a.img_file = 0 THEN {NoInput}
    ELSE IF a.ubi # 0 /\ a.std_in # 0
    THEN {In(1, "idx", -1), In(LebSize, "idx", 0), In(3 * LebSize, "idx", -1)}
    ELSE IF a.ubi # 0
    THEN {In(0, "idx", -1), In(1, "idx", -1), In(LebSize, "alt", -1), In(LebSize, "idx", 0),
          In(3 * LebSize, "idx", -1)}
    ELSE {In(0, "idx", -1), In(1, "idx", -1), In(1, "alt", -1), In(mtd.eb_size, "idx", -1),
          In(mtd.eb_size, "idx", 0), In(2 * mtd.eb_size, "alt", -1),
          In((DevPebs + 1) * mtd.eb_size, "idx", -1)}

InitOf(A) ==
    \E a \in A : \E i \in RunInputs(a) : \E b \in BadSets :
        LET f0 == NBad(b) + (IF i.err_at >= 0 THEN 1 ELSE 0)
        IN  f0 <= MaxFaults /\ InitState(a, i, b, f0)

Init == InitOf(RawArgs \cup UbiArgs)

Spec == Init /\ [][Next]_vars

\* ------------------------------------------------------------ other device geometries

\* A device of DevPebs PEBs of eb bytes, with pages of io bytes.
Geometry(eb, io) == [eb_size |-> eb, min_io_size |-> io, size |-> DevPebs * eb]

\* The device of the model, NAND with 512-byte, 2 KiB and 4 KiB pages, and NOR.
Geometries ==
    {mtd, Geometry(16384, 512), Geometry(131072, 2048), Geometry(262144, 4096),
     Geometry(65536, 1)}

\* What eb_gen_data returns on the device m for block blk with left bytes of
\* the image to go, when data_read delivers all it is asked for (lines
\* 332-379).
GenLen(m, blk, left) ==
    LET data_ofs == m.min_io_size * 2
        i == USub(m.eb_size, data_ofs)
    IN  IF args.ubi # 0
        THEN IF ULt(blk, UBI_LAYOUT_VOLUME_EBS) THEN LayoutLen(m)
             ELSE IF ULt(blk, UAdd(args.vol_lebs, UBI_LAYOUT_VOLUME_EBS))
             THEN (IF ULt(i, left) THEN i ELSE left) + data_ofs
             ELSE UBI_EC_HDR_SIZE
        ELSE IF ULt(m.eb_size, left) THEN m.eb_size ELSE left

\* Command lines of runs from a file, raw and UBI.
GeomArgs ==
    {[DefaultArgs EXCEPT !.ubi = u, !.img_file = 1, !.start = w,
                         !.vol_lebs = l, !.vol_name = Str(1)]
       : u \in 0 .. 1, w \in 0 .. 1, l \in 1 .. 2}

\* The input files: a byte, a PEB of the smallest device, more than a PEB.
GeomInputs(m) == {In(1, "idx", -1), In(16384, "idx", -1), In(m.eb_size + 1, "idx", -1)}

InitGeom ==
    \E m \in Geometries : \E a \in GeomArgs : \E i \in GeomInputs(m) :
        /\ geo = m
        /\ cmd = a /\ args = a /\ inp = i /\ bad = NoBad
        /\ flash = [p \in Pebs |-> StalePeb]
        /\ faults = 0 /\ log = <<>> /\ pc = "start"
        /\ start = 0 /\ end = 0 /\ eb_addr = 0 /\ image_size = 0
        /\ data_left = 0 /\ data_len = 0 /\ block_buf = ErasedPeb
        /\ blk_no = 0 /\ image_seq = 0 /\ ipos = 0 /\ exit_code = -1
        /\ hist = <<>>
        /\ dpc = "off"
        /\ dargs = [peb_size |-> -1, vol_index |-> 0, vol_name |-> NULLPTR, skip_bad |-> 0]
        /\ imi = [size |-> 0, vid_hdr_offset |-> 0, data_offset |-> 0, vol_id |-> 0, lnum |-> 0]
        /\ r_seek = 0 /\ out = <<>> /\ dret = -1
        /\ dreq = [vol_name |-> NULLPTR, vol_index |-> 0, info |-> -2]
        /\ ComprIdle(FullBuild, FALSE)

\* main() on the device geo, up to the write pass: the checks of the command
\* line against the device.  The erase pass is left out: the contents of the
\* device are not followed here.
geom_start ==
    /\ pc = "start"
    /\ \E v \in {ValidateOn(geo, "short")} :
         \E a \in {[args EXCEPT !.vol_lebs = v.vol_lebs]} :
             IF v.die
             THEN /\ pc' = "rejected"
                  /\ exit_code' = EXIT_FAILURE
                  /\ UNCHANGED <<args, start, end, eb_addr, image_size, data_left, ipos>>
             ELSE /\ args' = a
                  /\ start' = v.start
                  /\ end' = v.end
                  /\ image_size' = v.image_size
                  /\ ipos' = v.ipos
                  /\ eb_addr' = v.start
                  /\ EnterWrite(a, v.start, v.end, v.image_size)
    /\ UNCHANGED <<cmd, inp, bad, flash, faults, log, data_len, block_buf, blk_no,
                   image_seq, hist, geo, dvars, cvars>>

\* One iteration of the write loop on the device geo: the length of the block
\* eb_gen_data generates, and the loop control when eb_write accepts it.
geom_gen ==
    /\ pc = "gen"
    /\ \E len \in {GenLen(geo, blk_no, data_left)} :
         \E next \in {UAdd(eb_addr, geo.eb_size)} :
             /\ data_len' = len
             /\ blk_no' = UAdd(blk_no, 1)
             /\ data_left' = IF args.ubi = 0 THEN USub(data_left, len)
                             ELSE IF ULt(blk_no, UBI_LAYOUT_VOLUME_EBS)
                                     \/ ~ULt(blk_no, UAdd(args.vol_lebs, UBI_LAYOUT_VOLUME_EBS))
                             THEN data_left
                             ELSE USub(data_left, len - geo.min_io_size * 2)
             /\ hist' = Append(hist, [data_len |-> len, eb |-> UDiv(eb_addr, geo.eb_size),
                                      onbad |-> FALSE])
             /\ eb_addr' = next
             /\ IF ULt(next, end)
                THEN pc' = "gen" /\ UNCHANGED exit_code
                ELSE Finish(data_left', image_size)
    /\ UNCHANGED <<cmd, args, inp, bad, flash, faults, log, start, end, image_size,
                   block_buf, image_seq, ipos, geo, dvars, cvars>>

NextGeom == geom_start \/ geom_gen

SpecGeom == InitGeom /\ [][NextGeom]_vars

\* Runs from a file or without input, under every pattern of faults, when the
\* process keeps being scheduled: a step of main() that can be taken is taken.
LiveArgs ==
    {a \in RawArgs \cup UbiArgs :
        /\ a.clm = 0 /\ a.std_in = 0
        /\ a.ubi # 0 => (a.img_file # 0 /\ a.vol_id = 1)}

InitLive == InitOf(LiveArgs)

SpecLive == InitLive /\ [][Next]_vars /\ WF_vars(Next)

\* The runs that differ in the command line, on a device without bad PEBs and
\* without failures.
InitArgs ==
    \E a \in UsageArgs \cup WindowArgs : \E i \in RunInputs(a) :
        i.err_at < 0 /\ InitState(a, i, NoBad, MaxFaults)

SpecArgs == InitArgs /\ [][Next]_vars

\* Command lines of UBI runs on the whole device with a payload and a name.
RoundTripArgs ==
    {[DefaultArgs EXCEPT !.ubi = 1, !.std_in = i[1], !.img_file = i[2],
                         !.vol_lebs = v[1], !.vol_id = v[2], !.vol_name = v[3]]
       : i \in {<<0, 1>>, <<1, 0>>},
         v \in {<<1, 0, Str(1)>>, <<2, 1, Str(2)>>, <<-1, 5, Str(1)>>, <<1, 127, Str(3)>>,
                <<1, 128, Str(1)>>}}

\* The UBI runs on a fresh device: no bad PEB, no failure, no read error.
InitRT ==
    \E a \in RoundTripArgs : \E i \in RunInputs(a) :
        i.err_at < 0 /\ InitState(a, i, NoBad, MaxFaults)

SpecRT == InitRT /\ [][NextRT]_vars

\* Command lines of UBI runs from a file, on the whole device and on the part
\* of it behind PEB 0, which then keeps its stale contents.
ExtractArgs ==
    {[DefaultArgs EXCEPT !.ubi = 1, !.img_file = 1, !.start = w,
                         !.vol_lebs = v[1], !.vol_id = v[2], !.vol_name = v[3]]
       : w \in 0 .. 1,
         v \in {<<1, 0, Str(1)>>, <<2, 3, Str(2)>>}}

\* The payloads of these runs: a byte, and two LEBs.
ExtractInputs == {In(1, "idx", -1), In(2 * LebSize, "idx", -1)}

\* These runs on a device without bad PEBs whose erases and page writes may
\* fail.
InitEx ==
    \E a \in ExtractArgs : \E i \in ExtractInputs : InitState(a, i, NoBad, 0)

\* A writer run and then a deubinize run for any volume on the image it left.
NextEx ==
    \/ main_start \/ main_erase \/ main_gen \/ main_write
    \/ deubinize_parse_any \/ deubinize_info \/ deubinize_extract

SpecEx == InitEx /\ [][NextEx]_vars

\* ------------------------------------------------------------ deubinize on other images

\* The lnum values of the VID headers of the images: the first two LEBs of a
\* volume and two LEBs 4 GiB further on.
ImgLnums == {0, 1, 131072, 131073}

\* A block of the layout volume with a table that has the volume a at slot 0.
ImgLayoutPeb(lnum) ==
    [q \in Pages |->
        IF q = 0 THEN EcPage(1)
        ELSE IF q = 1 THEN VidPage(VidHdr(UBI_LAYOUT_VOLUME_TYPE, UBI_LAYOUT_VOLUME_COMPAT,
                                          UBI_LAYOUT_VOLUME_ID, lnum))
        ELSE VtblPage(q, 2 * mtd.min_io_size, VtblGen(0, 2, Str(1)))]

\* A block of volume 0 with the given lnum, its data area full of the byte v.
ImgDataPeb(lnum, v) ==
    [q \in Pages |->
        IF q = 0 THEN EcPage(1)
        ELSE IF q = 1 THEN VidPage(VidHdr(UBI_VID_DYNAMIC, 0, 0, lnum))
        ELSE BytesPage(v, mtd.min_io_size)]

\* An image file: the two blocks of the layout volume, then two blocks of
\* volume 0.
Image(l1, l2) ==
    [p \in Pebs |->
        IF p < UBI_LAYOUT_VOLUME_EBS THEN ImgLayoutPeb(p)
        ELSE IF p = UBI_LAYOUT_VOLUME_EBS THEN ImgDataPeb(l1, 1)
        ELSE IF p = UBI_LAYOUT_VOLUME_EBS + 1 THEN ImgDataPeb(l2, 2)
        ELSE ErasedPeb]

\* deubinize is started on an image file; no writer runs.
InitImg ==
    \E l1 \in ImgLnums, l2 \in ImgLnums :
        /\ flash = Image(l1, l2)
        /\ geo = mtd
        /\ cmd = DefaultArgs /\ args = DefaultArgs /\ inp = NoInput /\ bad = NoBad
        /\ faults = 0 /\ log = <<>> /\ pc = "exit"
        /\ start = 0 /\ end = 0 /\ eb_addr = 0 /\ image_size = 0
        /\ data_left = 0 /\ data_len = 0 /\ block_buf = ErasedPeb
        /\ blk_no = 0 /\ image_seq = 0 /\ ipos = 0 /\ exit_code = EXIT_SUCCESS
        /\ hist = <<>>
        /\ dpc = "off"
        /\ dargs = [peb_size |-> -1, vol_index |-> 0, vol_name |-> NULLPTR, skip_bad |-> 0]
        /\ imi = [size |-> 0, vid_hdr_offset |-> 0, data_offset |-> 0, vol_id |-> 0, lnum |-> 0]
        /\ r_seek = 0 /\ out = <<>> /\ dret = -1
        /\ dreq = [vol_name |-> NULLPTR, vol_index |-> 0, info |-> -2]
        /\ ComprIdle(FullBuild, FALSE)

NextImg == deubinize_parse_any \/ deubinize_info \/ deubinize_extract

SpecImg == InitImg /\ [][NextImg]_vars

\* ------------------------------------------------------------ runs of the compression layer

\* A caller that initialises the compression layer, uses it when
\* init_compression returned 0, and then destroys it, in every build.
InitCompr ==
    \E b \in Builds, fav \in BOOLEAN :
        RunInit(DefaultArgs, NoInput, NoBad, 0) /\ ComprIdle(b, fav)

SpecCompr == InitCompr /\ [][NextCompr]_vars

\* ------------------------------------------------------------ properties

\* main() got past validation: it left it with the window [start, end).
Accepted == pc \in {"erase", "gen", "write", "exit"}

\* The eb_erase calls and the eb_write calls main() has made.
IsErase(c) == c.fn = "eb_erase"
IsWrite(c) == c.fn = "eb_write"
EraseCalls == SelectSeq(log, IsErase)
WriteCalls == SelectSeq(log, IsWrite)

\* The PEBs the loops over [start, end) visit, and those the erase pass is
\* through with.
WindowPebs == IF ULt(start, end) THEN UDiv(USub(end, start), mtd.eb_size) ELSE 0
ErasedSoFar == IF pc = "erase" THEN UDiv(USub(eb_addr, start), mtd.eb_size) ELSE WindowPebs

\* Erase-only run: no payload, no stdin, no UBI.
EraseOnly == image_size = 0 /\ args.std_in = 0 /\ args.ubi = 0

\* C5: the erase pass queries is_bad exactly once for every PEB of the window
\* [start, end), in address order; it issues erase for a PEB if and only if
\* that query answered "not bad"; a bad PEB, a failed query or a failed erase
\* does not keep it from the PEBs that follow; every eb_erase call of the pass
\* precedes every eb_write call; and an erase-only run issues no page write
\* and exits with status 0.
C5_ErasePass ==
    Accepted =>
        /\ Len(EraseCalls) = ErasedSoFar
        /\ \A i \in 1 .. Len(EraseCalls) :
              LET c  == EraseCalls[i]
                  eb == UDiv(start, mtd.eb_size) + (i - 1)
              IN  /\ log[i] = c
                  /\ c.addr = start + (i - 1) * mtd.eb_size
                  /\ Len(c.calls) \in {1, 2}
                  /\ c.calls[1].op = "is_bad" /\ c.calls[1].eb = eb
                  /\ Len(c.calls) = 2 <=> c.calls[1].ret = 0
                  /\ Len(c.calls) = 2 => (c.calls[2].op = "erase" /\ c.calls[2].eb = eb)
        /\ (EraseOnly /\ pc # "erase") =>
              (pc = "exit" /\ exit_code = EXIT_SUCCESS /\ WriteCalls = <<>>)

\* C5 witness: an erase-only run is over; its pass met a bad PEB, a failed
\* query or a failed erase before the last PEB of the window, and erased a PEB
\* after it.
C5_Witness ==
    /\ Accepted /\ EraseOnly /\ pc = "exit"
    /\ \E i, j \in 1 .. Len(EraseCalls) :
          /\ i < j
          /\ EraseCalls[i].ret # 0
          /\ Len(EraseCalls[j].calls) = 2

\* C10: with clean markers enabled, every eb_write call issues a page write at
\* offset 0 of its PEB that carries the clean marker as OOB data, whatever the
\* page's main area holds and even when data_len is 0, and no page write at a
\* later offset carries OOB data; with clean markers disabled no page write
\* carries OOB data.
C10_CleanMarker ==
    \A i \in 1 .. Len(WriteCalls) :
        LET c == WriteCalls[i]
        IN  /\ args.clm # 0 =>
                  /\ Len(c.calls) >= 1
                  /\ c.calls[1].op = "write"
                  /\ c.calls[1].offs = 0
                  /\ c.calls[1].eb = UDiv(c.addr, mtd.eb_size)
                  /\ c.calls[1].oob
            /\ \A k \in 1 .. Len(c.calls) :
                  c.calls[k].op = "write" =>
                      (c.calls[k].oob <=> (args.clm # 0 /\ c.calls[k].offs = 0))

\* C10 witness: with clean markers enabled, one eb_write call wrote the marker
\* over a page whose main area it left alone and went on to a later page, a
\* second call had data_len = 0, and a third was a retry on the next PEB.
C10_Witness ==
    /\ args.clm # 0
    /\ \E i \in 1 .. Len(WriteCalls) :
          /\ Len(WriteCalls[i].calls) >= 2
          /\ ~WriteCalls[i].calls[1].data
          /\ WriteCalls[i].calls[2].op = "write"
    /\ \E i \in 1 .. Len(WriteCalls) :
          WriteCalls[i].dlen = 0 /\ WriteCalls[i].ret = 0
    /\ \E i \in 2 .. Len(WriteCalls) :
          WriteCalls[i - 1].ret # 0 /\ WriteCalls[i].ret = 0

\* The last eb_gen_data call produced a block that no eb_write call accepted.
Undelivered == hist # <<>> /\ hist[Len(hist)].data_len >= 0 /\ hist[Len(hist)].eb = -1

\* C2: when the write pass runs out of window with a generated block that was
\* written to no PEB, the run exits with a non-zero status; this holds for the
\* block whose generation brought data_left to 0 and for runs whose image_size
\* is 0 as well.
C2_UndeliveredFails ==
    (pc = "exit" /\ Undelivered) => exit_code # EXIT_SUCCESS

\* The last eb_gen_data call returned -1: data_read failed.
ReadFailed == hist # <<>> /\ hist[Len(hist)].data_len < 0

\* C3: a read failure on the input during the write pass (read() fails, or the
\* input ends where its end is not allowed) ends the run with a non-zero exit
\* status, for a file, for stdin with --length and for stdin without --length.
C3_ReadFailureFatal ==
    (pc = "exit" /\ HasInput /\ ReadFailed) => exit_code # EXIT_SUCCESS

\* C6: no generated block, whatever it holds and whatever its data_len, is
\* accepted on a PEB that is bad: the write pass moves on from a bad PEB and
\* delivers the block to a good one.
C6_NoBlockOnBadPeb ==
    \A i \in 1 .. Len(hist) : ~hist[i].onbad

\* The record the volume table is to hold for the volume of this run.
ExpectedVolRec ==
    LET r == [reserved_pebs |-> Swab32(args.vol_lebs), alignment |-> Swab32(1),
              data_pad |-> 0, vol_type |-> UBI_VID_DYNAMIC, upd_marker |-> 0,
              name_len |-> Swab16(Len(args.vol_name)), name |-> args.vol_name,
              flags |-> 0, crc |-> 0]
    IN  [r EXCEPT !.crc = Swab32(Crc32(UBI_CRC32_INIT, VtblCrcFields(r)))]

\* block_buf holds one of the two layout-volume blocks of a run with a name.
LayoutBlockGenerated ==
    /\ pc = "write" /\ args.ubi # 0 /\ args.vol_name # NULLPTR
    /\ ULe(blk_no, UBI_LAYOUT_VOLUME_EBS)

\* C7: in a UBI run with volume name V, volume id I and resolved size L, each
\* layout-volume block carries a volume table of 128 records of which exactly
\* one is not empty; it is the record at index I and has name V, name_len
\* len(V), reserved_pebs L, alignment 1 and the dynamic type; the other 127 are
\* zero with a valid CRC.
C7_VolumeTable ==
    LayoutBlockGenerated =>
        \A q \in Pages :
            q * mtd.min_io_size >= 2 * mtd.min_io_size =>
                /\ block_buf[q].k = "vtbl"
                /\ Cardinality({i \in 0 .. (VTBL_SLOTS - 1) :
                                  VtblSlot(block_buf[q].t, i) # ZeroRec}) = 1
                /\ \A i \in 0 .. (VTBL_SLOTS - 1) :
                      VtblSlot(block_buf[q].t, i) =
                          IF i = args.vol_id THEN ExpectedVolRec ELSE ZeroRec

\* The bytes the input source holds for the run, and the bytes the window or
\* the volume can take.
PayloadSize == IF args.std_in # 0 /\ args.length = 0 THEN inp.size ELSE image_size
Capacity == IF args.ubi # 0 THEN args.vol_lebs * LebSize ELSE end - start

\* C8: every run that gets past validation with a payload has payload_size <=
\* window_size in raw mode and payload_size <= vol_lebs * leb_size in UBI mode,
\* for a file, for stdin with --length and for stdin without --length.
C8_PayloadFits ==
    (Accepted /\ HasInput) => PayloadSize <= Capacity

\* The window the command line asks for, in PEBs: --blocks from --start, or
\* from --start to the end of the device.
AskedPebs == IF cmd.blocks # 0 THEN cmd.blocks ELSE DevPebs - cmd.start

\* The payload the command line asks for, in bytes.
AskedPayload ==
    IF cmd.std_in # 0 THEN cmd.length
    ELSE IF cmd.img_file # 0
    THEN (IF cmd.length # 0 THEN cmd.length ELSE inp.size - cmd.skip)
    ELSE 0

\* total_lebs and the resolved vol_lebs of the window the command line asks for.
AskedTotLebs == AskedPebs - UBI_LAYOUT_VOLUME_EBS
AskedVolLebs ==
    IF cmd.vol_lebs = 0 THEN AskedTotLebs - DEFAULT_SPARE_LEBS
    ELSE IF cmd.vol_lebs < 0 THEN AskedTotLebs + cmd.vol_lebs
    ELSE cmd.vol_lebs

\* The usage and geometry errors of a command line.
UsageError ==
    \/ cmd.std_in # 0 /\ cmd.img_file # 0
    \/ cmd.ubi # 0 /\ (cmd.std_in # 0 \/ cmd.img_file # 0) /\ cmd.vol_name = NULLPTR
    \/ cmd.std_in # 0 /\ cmd.skip # 0
    \/ cmd.std_in = 0 /\ cmd.img_file = 0 /\ (cmd.skip # 0 \/ cmd.length # 0)
    \/ cmd.start > DevPebs - 1
    \/ cmd.start + AskedPebs > DevPebs
    \/ cmd.std_in = 0 /\ cmd.img_file # 0 /\ cmd.skip + cmd.length > inp.size
    \/ cmd.ubi = 0 /\ AskedPayload > AskedPebs * mtd.eb_size
    \/ cmd.ubi # 0 /\ (AskedVolLebs < 0 \/ AskedVolLebs > AskedTotLebs)
    \/ cmd.ubi # 0 /\ AskedPayload > AskedVolLebs * LebSize
    \/ cmd.ubi # 0 /\ cmd.vol_name # NULLPTR /\ Len(cmd.vol_name) > UBI_VOL_NAME_MAX

\* C4: a run whose command line has a usage or geometry error ends with a
\* non-zero exit status before any erase, page write or mark-bad call.
C4_ErrorsBeforeDevice ==
    UsageError =>
        \/ pc = "start"
        \/ pc = "rejected" /\ exit_code # EXIT_SUCCESS /\ log = <<>>

\* C9: in UBI mode, with total_lebs = window_pebs - 2, a vol_lebs of 0 resolves
\* to total_lebs - 20, -k to total_lebs - k and a positive value to itself; a
\* run gets past validation only if 0 <= vol_lebs <= total_lebs; so in every
\* such run the two layout blocks and the vol_lebs volume blocks fit in the
\* window.
C9_VolLebs ==
    (Accepted /\ cmd.ubi # 0) =>
        /\ args.vol_lebs = AskedVolLebs
        /\ 0 <= args.vol_lebs /\ args.vol_lebs <= AskedTotLebs
        /\ UBI_LAYOUT_VOLUME_EBS + args.vol_lebs <= WindowPebs

\* The page of the output file that starts at byte k * min_io_size: what a
\* write put there, zeros in a hole, nothing past the end of the file.
OutPage(k) ==
    LET pos  == k * mtd.min_io_size
        dsz  == USub(dargs.peb_size, imi.data_offset)
        hits == {w \in DOMAIN out : w <= pos /\ pos < w + dsz}
    IN  IF hits = {} THEN [k |-> "none"]
        ELSE LET w == CHOOSE x \in hits : TRUE
             IN  out[w][(pos - w) \div mtd.min_io_size]

\* The first n bytes of page o are n bytes of value v.
StartsWith(o, v, n) ==
    \/ n = 0
    \/ o.k = "bytes" /\ o.v = v /\ o.n >= n
    \/ o.k = "ff" /\ v = 255

\* C1: a UBI run of the writer on a fresh device with payload P, volume id I
\* and volume name V leaves an image from which deubinize, run with the
\* device's PEB size and the volume selected by name V or by index I, exits
\* with success and writes an output file whose first |P| bytes are P.
C1_RoundTrip ==
    (dpc = "done" /\ pc = "exit" /\ exit_code = EXIT_SUCCESS /\ cmd.ubi # 0 /\ HasInput) =>
        /\ dret = EXIT_SUCCESS
        /\ \A k \in 0 .. ((PayloadSize + mtd.min_io_size - 1) \div mtd.min_io_size) - 1 :
              StartsWith(OutPage(k),
                         Sym(inp.pat, (cmd.skip + k * mtd.min_io_size) \div mtd.min_io_size),
                         Min(mtd.min_io_size, PayloadSize - k * mtd.min_io_size))

\* ------------------------------------------------------------ data_read policy

\* The lengths data_read is asked for: nothing, a byte, a page, a LEB, a PEB.
ReadLens == {0, 1, mtd.min_io_size, LebSize, mtd.eb_size}

\* read() fails inside the len bytes from offset pos on.
ReadErrorIn(pos, len) ==
    /\ len > 0
    /\ pos <= inp.err_at /\ inp.err_at < pos + len
    /\ inp.err_at <= Max(inp.size, pos)

\* C11: a data_read of len bytes returns len when the input holds len more
\* bytes, however many read() calls it takes; when the input ends before, it
\* returns the count read so far if the input is stdin without --length, and
\* an error in every other case (a file, stdin with --length); a failing
\* read() is an error.
C11_EndOfStream ==
    HasInput =>
        \A len \in ReadLens :
            LET avail == Max(inp.size - ipos, 0)
                r     == data_read(ipos, len)
            IN  IF ReadErrorIn(ipos, len) THEN r.ret = -1
                ELSE IF avail >= len THEN r.ret = len /\ r.pos = ipos + len
                ELSE IF args.std_in # 0 /\ args.length = 0
                THEN r.ret = avail /\ r.pos = inp.size
                ELSE r.ret = -1

\* C11 witness: a raw run on stdin without --length got a short block from
\* data_read, which met the end of the input after a partial read, and a file
\* run would have failed there.
C11_Witness ==
    /\ pc = "write" /\ args.ubi = 0 /\ args.std_in # 0 /\ args.length = 0
    /\ 0 < data_len /\ data_len < mtd.eb_size
    /\ ipos = inp.size
    /\ data_read(ipos, 1).ret = 0

\* ------------------------------------------------------------ end of stdin in UBI mode

\* The payload bytes of the block of the i-th eb_gen_data call.
BlockBytes(i) == hist[i].data_len - mtd.min_io_size * 2

\* The i-th eb_gen_data call of a UBI run on stdin without --length filled a
\* volume block and met the end of the input in the middle of it.
EofMidPeb(i) ==
    /\ args.ubi # 0 /\ args.std_in # 0 /\ args.length = 0
    /\ i > UBI_LAYOUT_VOLUME_EBS
    /\ 0 < BlockBytes(i) /\ BlockBytes(i) < LebSize

\* C12: in a UBI run on stdin without --length in which the input ends in the
\* middle of a PEB, the block being filled is 0xFF from the end of the input
\* on, and every block generated after it carries the EC header only: no VID
\* header, data_len = UBI_EC_HDR_SIZE.
C12_AfterEndOfInput ==
    pc = "write" =>
        /\ EofMidPeb(Len(hist)) =>
              \A q \in Pages :
                  (q * mtd.min_io_size >= mtd.min_io_size * 2 + BlockBytes(Len(hist)))
                      => block_buf[q] = FFPage
        /\ (\E i \in 1 .. Len(hist) - 1 : EofMidPeb(i)) =>
              /\ block_buf[0].k = "ec"
              /\ \A q \in Pages : q # 0 => block_buf[q] = FFPage
              /\ data_len = UBI_EC_HDR_SIZE

\* ------------------------------------------------------------ deubinize: header validation

\* The file offsets of the PEBs of the image.
PebOffsets == {p * mtd.eb_size : p \in Pebs}

\* The EC or VID header of the PEB at offset pos fails validation.
HdrBad(pos) == read_headers(pos).ret # 0

\* The PEB at offset pos is a block of the layout volume.
IsLayoutPeb(pos) == ~HdrBad(pos) /\ read_headers(pos).vol_id = UBI_LAYOUT_VOLUME_ID

\* The discovery phase meets a PEB whose headers fail validation before it
\* meets a block of the layout volume.
BadBeforeLayout ==
    \E pos \in PebOffsets :
        /\ HdrBad(pos)
        /\ \A q \in PebOffsets : q < pos => (~HdrBad(q) /\ ~IsLayoutPeb(q))

\* read_ubi_info has returned.
InfoDone == dreq.info # -2

\* C13: with skip_bad set, a PEB whose EC or VID header fails validation never
\* makes deubinize fail, in the discovery phase and in the extraction phase:
\* it is skipped; with skip_bad clear, the first such PEB ends the run with a
\* non-zero exit status.
C13_SkipBad ==
    InfoDone =>
        /\ dargs.skip_bad # 0 =>
              /\ ~(dreq.info # 0 /\ BadBeforeLayout)
              /\ (dpc = "done" /\ dreq.info = 0) => dret = EXIT_SUCCESS
        /\ (dargs.skip_bad = 0 /\ dpc = "done" /\ \E pos \in PebOffsets : HdrBad(pos)) =>
              /\ dret # EXIT_SUCCESS
              /\ dreq.info = 0 => (HdrBad(r_seek) /\ \A q \in PebOffsets : q < r_seek => ~HdrBad(q))

\* ------------------------------------------------------------ deubinize: placement

\* The PEB at offset pos has valid headers, a VID header that is not empty and
\* the vol_id of the volume to extract.
InVolume(pos) == ~HdrBad(pos) /\ read_headers(pos).vol_id = dargs.vol_index

\* The PEBs the extraction loop is through with.
Extracted == {pos \in PebOffsets : pos < r_seek}

\* The place in the output of the data of the PEB at offset pos.
PlaceOf(pos) == read_headers(pos).lnum * (dargs.peb_size - imi.data_offset)

\* The data area of the PEB at offset pos: its pages from data_offset on.
DataArea(pos) ==
    LET first == imi.data_offset \div mtd.min_io_size
    IN  [j \in 0 .. (PagesPerEb - first) - 1 |-> flash[pos \div mtd.eb_size][first + j]]

\* C14: the output holds, at offset lnum * leb_size, the data area of a PEB of
\* the image if and only if the PEB's headers are valid, its VID header is not
\* empty and names the volume to extract; other PEBs add nothing; when two
\* PEBs have the same lnum the later in file order wins, so that with one PEB
\* for each lnum the output does not depend on the order of the PEBs.
C14_Placement ==
    (dreq.info = 0) =>
        /\ DOMAIN out = {PlaceOf(pos) : pos \in {q \in Extracted : InVolume(q)}}
        /\ \A pos \in Extracted :
              (/\ InVolume(pos)
               /\ \A q \in Extracted : (q > pos /\ InVolume(q)) => PlaceOf(q) # PlaceOf(pos))
                  => out[PlaceOf(pos)] = DataArea(pos)

\* C14 witness: deubinize is through with an image in which a PEB with
\* invalid headers lies before a PEB of the volume, whose data area it wrote.
C14_Witness ==
    /\ dpc = "done" /\ dret = EXIT_SUCCESS /\ dreq.info = 0
    /\ \E pos \in Extracted, q \in Extracted :
          /\ q < pos /\ HdrBad(q) /\ InVolume(pos)
          /\ PlaceOf(pos) \in DOMAIN out
          /\ out[PlaceOf(pos)][0].k = "bytes"

\* ------------------------------------------------------------ deubinize: volume resolution

\* The image has a block of the layout volume and no PEB with invalid headers
\* before its first.
Discovered == (\E pos \in PebOffsets : IsLayoutPeb(pos)) /\ ~BadBeforeLayout

\* The first block of the layout volume in file order.
FirstLayout ==
    CHOOSE pos \in PebOffsets :
        IsLayoutPeb(pos) /\ \A q \in PebOffsets : q < pos => ~IsLayoutPeb(q)

\* The file offset of the volume table of that block.
TableBase == FirstLayout + read_headers(FirstLayout).data_offset

\* Record i of the volume table at offset base.
TableRec(base, i) == VtblRecAt(base + i * UBI_VTBL_RECORD_SIZE)

TableSlots == 0 .. (UBI_MAX_VOLUMES - 1)

\* The records of the table at offset base with a valid CRC and the name the
\* command line asks for.
NamedRecs(base) ==
    {i \in TableSlots : VtblCrcOk(TableRec(base, i)) /\ TableRec(base, i).name = dreq.vol_name}

\* A request by name on the table at offset base, where named are the records
\* with the name.
ByNameAt(base, named) ==
    /\ dreq.info = 0 =>
          /\ dargs.vol_index \in named
          /\ \A i \in named : dargs.vol_index <= i
          /\ dargs.vol_name = dreq.vol_name
    /\ named = {} => dreq.info # 0
    /\ (dreq.info # 0 /\ \A i \in TableSlots : VtblCrcOk(TableRec(base, i)))
          => named = {}

\* A request by index, where rec is the record at that index.
ByIndexAt(rec) ==
    /\ dreq.info = 0 <=> (VtblCrcOk(rec) /\ rec.name # <<>>)
    /\ dreq.info = 0 =>
          /\ dargs.vol_index = dreq.vol_index
          /\ dargs.vol_name = rec.name

\* C15: once read_ubi_info has returned (seen before the extraction loop
\* moves on from the first PEB): on the first block of the layout volume in
\* file order, a request by name sets vol_index to the slot of the record
\* with a valid CRC and exactly that name, and fails as 'not found' only if
\* none of the 128 records is such a record; a request by index goes on if
\* and only if record vol_index has a valid CRC and a name that is not empty,
\* and publishes that name.
C15_Resolution ==
    (InfoDone /\ r_seek = 0 /\ Discovered) =>
        IF dreq.vol_name # NULLPTR
        THEN ByNameAt(TableBase, NamedRecs(TableBase))
        ELSE ByIndexAt(TableRec(TableBase, dreq.vol_index))

\* C15 witness: a request by name was resolved to a slot other than 0.
C15_Witness ==
    /\ InfoDone /\ r_seek = 0 /\ Discovered
    /\ dreq.vol_name # NULLPTR /\ dreq.info = 0
    /\ dargs.vol_index # 0 /\ dargs.vol_index \in NamedRecs(TableBase)

\* ------------------------------------------------------------ image_seq

\* The PEBs of the device that hold an EC header.
EcPebs == {p \in Pebs : flash[p][0].k = "ec"}

\* C16: in a UBI run image_seq is not 0 from the first eb_gen_data call on,
\* and every EC header of the run, in the block buffer and on the device,
\* first attempts and retries alike, carries that one value.
C16_ImageSeq ==
    args.ubi # 0 =>
        /\ hist # <<>> => image_seq # 0
        /\ pc = "write" =>
              (block_buf[0].k = "ec" /\ block_buf[0].h.image_seq = Swab32(image_seq))
        /\ \A p \in EcPebs :
              image_seq # 0 /\ flash[p][0].h.image_seq = Swab32(image_seq)

\* C16 witness: a UBI run is over in which a page write failed and the block
\* went to the next PEB, with EC headers on three PEBs.
C16_Witness ==
    /\ args.ubi # 0 /\ pc = "exit"
    /\ \E i \in 2 .. Len(WriteCalls) :
          WriteCalls[i - 1].ret # 0 /\ WriteCalls[i].ret = 0
    /\ Cardinality(EcPebs) >= 3

\* ------------------------------------------------------------ retries

\* This step is an eb_write call that failed with a PEB of the window left.
FailedWrite ==
    /\ pc = "write"
    /\ Len(log') = Len(log) + 1
    /\ log'[Len(log')].ret # 0
    /\ ULt(UAdd(eb_addr, mtd.eb_size), end)

\* C17: after a failed eb_write the write pass calls eb_write on the next PEB
\* with the same buffer and the same data_len, and no eb_gen_data call comes
\* between; blk_no advances by one with every eb_gen_data call that succeeds
\* and at no other step, retries included.
C17_Retry ==
    [][/\ FailedWrite =>
             /\ pc' = "write"
             /\ eb_addr' = UAdd(eb_addr, mtd.eb_size)
             /\ block_buf' = block_buf
             /\ data_len' = data_len
             /\ blk_no' = blk_no
             /\ hist' = hist
       /\ (pc = "gen" /\ pc' = "write") =>
             (blk_no' = UAdd(blk_no, 1) /\ Len(hist') = Len(hist) + 1)
       /\ ~(pc = "gen" /\ pc' = "write") => blk_no' = blk_no]_vars

\* C17 witness: in a UBI run the block of a volume LEB was accepted on the
\* PEB after the one its first eb_write call failed on, with the lnum it was
\* generated with, and blk_no counts the blocks generated.
C17_Witness ==
    /\ args.ubi # 0 /\ pc = "exit" /\ Len(hist) >= 3
    /\ \E i \in 2 .. Len(WriteCalls) :
          /\ WriteCalls[i - 1].ret # 0 /\ WriteCalls[i].ret = 0
          /\ WriteCalls[i].dlen = WriteCalls[i - 1].dlen
          /\ WriteCalls[i].addr = WriteCalls[i - 1].addr + mtd.eb_size
          /\ hist[3].eb = UDiv(WriteCalls[i].addr, mtd.eb_size)
          /\ flash[hist[3].eb][1] = VidPage(VidHdr(UBI_VID_DYNAMIC, 0, args.vol_id, 0))
    /\ blk_no = Len(hist)

\* ------------------------------------------------------------ UBI block generation

\* The offset of the data area in a UBI block, and the size of a volume table.
DataOfs == mtd.min_io_size * 2
TableBytes == VTBL_SLOTS * UBI_VTBL_RECORD_SIZE

\* Page q of the block buffer holds the bytes of the volume table that fall
\* into it.
HoldsTable(q) ==
    LET off == q * mtd.min_io_size - DataOfs
    IN  IF off >= TableBytes THEN block_buf[q] = FFPage
        ELSE /\ block_buf[q].k = "vtbl"
             /\ block_buf[q].from = off
             /\ block_buf[q].n = Min(TableBytes - off, mtd.min_io_size)

\* Page q of the block buffer holds the part that falls into it of the n
\* bytes of the input before ipos, and 0xFF behind them.
HoldsPayload(q, n) ==
    LET off == q * mtd.min_io_size - DataOfs
    IN  IF off >= n THEN block_buf[q] = FFPage
        ELSE block_buf[q] = BytesPage(Sym(inp.pat, ((ipos - n) + off) \div mtd.min_io_size),
                                      Min(n - off, mtd.min_io_size))

\* The block of number blk is in the block buffer, as blk says it is to be.
BlockOf(blk) ==
    /\ block_buf[0].k = "ec"
    /\ block_buf[0].h.magic = Swab32(UBI_EC_HDR_MAGIC)
    /\ IF blk < UBI_LAYOUT_VOLUME_EBS
       THEN /\ block_buf[1].k = "vid"
            /\ block_buf[1].h.vol_id = Swab32(UBI_LAYOUT_VOLUME_ID)
            /\ block_buf[1].h.lnum = Swab32(blk)
            /\ block_buf[1].h.vol_type = UBI_LAYOUT_VOLUME_TYPE
            /\ block_buf[1].h.compat = UBI_LAYOUT_VOLUME_COMPAT
            /\ data_len = DataOfs + TableBytes
            /\ \A q \in Pages : q >= 2 => HoldsTable(q)
       ELSE IF blk < UBI_LAYOUT_VOLUME_EBS + args.vol_lebs
       THEN /\ block_buf[1].k = "vid"
            /\ block_buf[1].h.vol_id = Swab32(args.vol_id)
            /\ block_buf[1].h.lnum = Swab32(blk - UBI_LAYOUT_VOLUME_EBS)
            /\ block_buf[1].h.vol_type = UBI_VID_DYNAMIC
            /\ DataOfs <= data_len /\ data_len <= DataOfs + LebSize
            /\ \A q \in Pages : q >= 2 => HoldsPayload(q, data_len - DataOfs)
       ELSE /\ \A q \in Pages : q >= 1 => block_buf[q] = FFPage
            /\ data_len = UBI_EC_HDR_SIZE

\* C18: the block a UBI run generates is determined by its number: an EC
\* header at offset 0; below 2 a layout VID header with lnum = blk_no and the
\* volume table, data_len = data_offset + 128 records; from 2 to below
\* 2 + vol_lebs a dynamic VID header with vol_id = args.vol_id and
\* lnum = blk_no - 2 and the bytes read, data_len = data_offset + their count,
\* at most leb_size; from 2 + vol_lebs on no VID header and
\* data_len = UBI_EC_HDR_SIZE; and 0xFF everywhere else.
C18_BlockByNumber ==
    (pc = "write" /\ args.ubi # 0) => (blk_no = Len(hist) /\ BlockOf(blk_no - 1))

\* C18 witness: a UBI run has generated the two layout blocks, a volume block
\* with payload bytes, and now a block behind the volume.
C18_Witness ==
    /\ pc = "write" /\ args.ubi # 0
    /\ blk_no - 1 >= UBI_LAYOUT_VOLUME_EBS + args.vol_lebs
    /\ hist[3].data_len > DataOfs
    /\ data_len = UBI_EC_HDR_SIZE

\* ------------------------------------------------------------ skipping 0xFF pages

\* The write loop has just called eb_write.
WriteCalled == pc = "write" /\ Len(log') = Len(log) + 1

\* The PEB at eb_addr.
CurrentPeb == UDiv(eb_addr, mtd.eb_size)

\* The call eb_write that was just made, as logged.
LastWrite == log'[Len(log')]

\* Iteration q of LastWrite passed the page's main area to mtd_write.
Programmed(q) ==
    \E i \in 1 .. Len(LastWrite.calls) :
        /\ LastWrite.calls[i].op = "write"
        /\ LastWrite.calls[i].offs = q * mtd.min_io_size
        /\ LastWrite.calls[i].data

\* The PEB reads back as the block buffer, and what was not programmed is
\* 0xFF in the buffer.
ReadsBack ==
    /\ flash'[CurrentPeb] = block_buf
    /\ \A q \in Pages : ~Programmed(q) => block_buf[q] = FFPage

\* LastWrite returned at once.
NothingWritten == LastWrite.ret = 0 /\ LastWrite.calls = <<>>

\* C19: skipping 0xFF pages preserves the contents: after eb_write returns
\* success on a PEB that was erased, the PEB reads back as the generated
\* buffer, every page of it that was not programmed being all 0xFF in the
\* buffer; and with data_len = 0 and clean markers disabled no page write is
\* issued.
C19_SkipFF ==
    [][WriteCalled =>
         ( /\ ((LastWrite.ret = 0 /\ flash[CurrentPeb] = ErasedPeb) => ReadsBack)
           /\ ((data_len = 0 /\ args.clm = 0) => NothingWritten) )]_vars

\* C19 witness: eb_write succeeded on an erased PEB with a block that has an
\* all-0xFF page below data_len and a page with payload, and the PEB now holds
\* the block.
C19_Witness ==
    /\ pc \in {"gen", "exit"} /\ Len(log) > 0 /\ Len(hist) > 0
    /\ LET w == log[Len(log)]
           eb == hist[Len(hist)].eb
       IN  /\ w.fn = "eb_write" /\ w.ret = 0 /\ eb # -1
           /\ \E i \in 1 .. Len(log) :
                /\ log[i].fn = "eb_erase" /\ log[i].addr = w.addr
                /\ log[i].ret = 0 /\ Len(log[i].calls) = 2
           /\ \E i, j \in 1 .. Len(w.calls) :
                /\ w.calls[i].op = "write" /\ ~w.calls[i].data
                /\ w.calls[j].op = "write" /\ w.calls[j].data
           /\ flash[eb] = block_buf
           /\ block_buf # ErasedPeb

\* C19 witness, second case: eb_write was called with data_len = 0 and clean
\* markers disabled, and issued no call.
C19_WitnessEmpty ==
    /\ Len(log) > 0
    /\ log[Len(log)].fn = "eb_write" /\ log[Len(log)].dlen = 0
    /\ args.clm = 0 /\ log[Len(log)].calls = <<>>

\* ------------------------------------------------------------ placement of the layout volume

\* The first PEB of the window being written.
FirstPeb == UDiv(start, mtd.eb_size)

\* C20: in every UBI run the two layout-volume blocks, lnum 0 and 1, end up
\* on the first two PEBs of the window being written, whatever the pattern of
\* bad PEBs and write failures.
C20_LayoutFirst ==
    (args.ubi # 0 /\ pc = "exit") =>
        \A i \in 1 .. Len(hist) :
            (i <= UBI_LAYOUT_VOLUME_EBS /\ hist[i].eb # -1) =>
                hist[i].eb = FirstPeb + (i - 1)

\* ------------------------------------------------------------ a failed page write

\* What eb_write did after its page write number k failed: nothing more was
\* written, eb_erase ran on the PEB (the bad-block query and, on a PEB not
\* reported bad, the erase, whatever they answered), and the PEB was marked
\* bad exactly when dlen is a multiple of eb_size.
FailedAt(w, k) ==
    LET eb   == UDiv(w.addr, mtd.eb_size)
        rest == SubSeq(w.calls, k + 1, Len(w.calls))
        ers  == IF Len(rest) >= 2 /\ rest[2].op = "erase" THEN 2 ELSE 1
    IN  /\ \A j \in 1 .. k : /\ w.calls[j].op = "write" /\ w.calls[j].eb = eb
                             /\ w.calls[j].offs = (j - 1) * mtd.min_io_size
                             /\ (w.calls[j].ret # 0) = (j = k)
        /\ Len(rest) >= 1
        /\ rest[1].op = "is_bad" /\ rest[1].eb = eb
        /\ (rest[1].ret = 0) = (Len(rest) >= 2 /\ rest[2].op = "erase" /\ rest[2].eb = eb)
        /\ IF w.dlen % mtd.eb_size = 0
           THEN /\ Len(rest) = ers + 1
                /\ rest[ers + 1].op = "mark_bad" /\ rest[ers + 1].eb = eb
           ELSE Len(rest) = ers
        /\ w.ret # 0

\* C21: on the first failed page write of a PEB eb_write writes no further
\* page of it, erases the PEB through eb_erase ignoring the result, calls
\* mark_bad on it if and only if data_len is a multiple of eb_size, and
\* returns failure; a successful eb_write calls neither erase nor mark_bad.
C21_WriteFailure ==
    \A i \in 1 .. Len(WriteCalls) :
        LET w == WriteCalls[i]
        IN  IF \E k \in 1 .. Len(w.calls) : w.calls[k].op = "write" /\ w.calls[k].ret # 0
            THEN \E k \in 1 .. Len(w.calls) : FailedAt(w, k)
            ELSE /\ w.ret = 0
                 /\ \A k \in 1 .. Len(w.calls) : w.calls[k].op = "write"

\* C21 witness: a page write behind the first page of a PEB failed, the erase
\* that followed failed as well, and eb_write still marked the PEB bad and
\* returned failure.
C21_Witness ==
    \E i \in 1 .. Len(WriteCalls) :
        /\ WriteCalls[i].ret # 0 /\ WriteCalls[i].dlen = mtd.eb_size
        /\ \E k \in 2 .. Len(WriteCalls[i].calls) :
             /\ WriteCalls[i].calls[k].op = "write" /\ WriteCalls[i].calls[k].ret # 0
             /\ Len(WriteCalls[i].calls) = k + 3
             /\ WriteCalls[i].calls[k + 2].op = "erase"
             /\ WriteCalls[i].calls[k + 2].ret # 0
             /\ WriteCalls[i].calls[k + 3].op = "mark_bad"

\* C21 witness, second case: a page write failed on a block whose data_len is
\* no multiple of eb_size, and the PEB was not marked bad.
C21_WitnessUnmarked ==
    \E i \in 1 .. Len(WriteCalls) :
        /\ WriteCalls[i].ret # 0 /\ WriteCalls[i].dlen % mtd.eb_size # 0
        /\ \A k \in 1 .. Len(WriteCalls[i].calls) : WriteCalls[i].calls[k].op # "mark_bad"

\* ------------------------------------------------------------ the window

\* PEB p lies in the window [start, end).
InWindow(p) == ULe(start, p * mtd.eb_size) /\ ULt(p * mtd.eb_size, end)

\* The MTD calls issued so far that change a PEB.
Changing ==
    {c \in UNION {{log[i].calls[k] : k \in 1 .. Len(log[i].calls)} : i \in 1 .. Len(log)} :
        c.op \in {"erase", "write", "mark_bad"}}

\* C22: the writer issues no erase, page write or mark-bad call to a PEB
\* outside the window [start, end), and the PEBs before start and at or after
\* end keep their contents, also when the last PEBs of the window fail and
\* the retry loop advances eb_addr.
C22_Window ==
    /\ \A c \in Changing : c.eb \in Pebs /\ InWindow(c.eb)
    /\ \A p \in Pebs : (pc \notin {"start"} /\ ~InWindow(p)) => flash[p] = StalePeb

\* C22 witness: the run is over, the write on the last PEB of a window that
\* ends before the end of the device failed, and the PEB behind the window
\* still has its contents.
C22_Witness ==
    /\ pc = "exit" /\ ULt(end, mtd.size) /\ ULt(start, end)
    /\ Len(WriteCalls) > 0
    /\ LET w == WriteCalls[Len(WriteCalls)]
       IN  w.ret # 0 /\ UAdd(w.addr, mtd.eb_size) = end
    /\ flash[UDiv(end, mtd.eb_size)] = StalePeb

\* ------------------------------------------------------------ order and termination

\* The erase pass has called eb_erase on every PEB of the window, in order.
ErasePassDone ==
    /\ Len(EraseCalls) = WindowPebs
    /\ \A k \in 1 .. Len(EraseCalls) :
         EraseCalls[k].addr = UAdd(start, (k - 1) * mtd.eb_size)

\* The calls of main() so far are in order: each eb_write after the whole
\* erase pass, on a PEB behind that of the eb_write before it, and no more
\* eb_write and eb_gen_data calls than the window has PEBs.
InOrder ==
    /\ \A i \in 1 .. Len(log) :
         log[i].fn = "eb_write" =>
            /\ ErasePassDone
            /\ \A j \in 1 .. Len(log) : log[j].fn = "eb_erase" => j < i
    /\ \A i, j \in 1 .. Len(WriteCalls) :
         i < j => ULt(WriteCalls[i].addr, WriteCalls[j].addr)
    /\ Len(WriteCalls) <= WindowPebs
    /\ Len(hist) <= WindowPebs

\* main() has returned, called exit or was killed.
Terminated == pc \in {"exit", "rejected", "killed"}

\* C23: no page write is issued before the erase pass has visited every PEB
\* of the window; eb_write is called on PEBs in strictly increasing address
\* order and at most once per PEB, so at most window_pebs eb_write calls and
\* at most window_pebs eb_gen_data calls occur; and the run terminates for
\* every pattern of bad PEBs, erase failures and write failures.
C23_OrderAndTermination == []InOrder /\ <>Terminated

\* C23 witness: a run has ended in which eb_write was called on every PEB of
\* a window of several PEBs and failed on one of them, after an erase of the
\* erase pass had failed or a PEB was bad.
C23_Witness ==
    /\ pc = "exit" /\ WindowPebs >= 2
    /\ Len(WriteCalls) = WindowPebs
    /\ \E i \in 1 .. Len(WriteCalls) : WriteCalls[i].ret # 0
    /\ \E p \in Pebs : bad[p]

\* ------------------------------------------------------------ the block buffer

\* C24: every block eb_gen_data produces in an accepted run has
\* data_len <= eb_size, so that eb_gen_data writes and eb_write inspects only
\* bytes inside the block buffer of eb_size bytes; in UBI mode the layout
\* block, 2 * min_io_size + 128 * UBI_VTBL_RECORD_SIZE bytes, fits in one PEB
\* on every device the writer accepts.
C24_Fits ==
    \A i \in 1 .. Len(hist) : hist[i].data_len <= geo.eb_size

\* ------------------------------------------------------------ UBI without a volume name

\* A UBI run without input file, stdin and --vol-name.
NamelessUbi ==
    cmd.ubi # 0 /\ cmd.img_file = 0 /\ cmd.std_in = 0 /\ cmd.vol_name = NULLPTR

\* C25: in UBI mode the volume name is read only when one was supplied: a
\* UBI run with no input file and no stdin, accepted without --vol-name,
\* never dereferences the absent vol_name, and either completes the write of
\* the layout volume or fails with a reported error.
C25_NoNullName ==
    NamelessUbi =>
        /\ pc # "killed"
        /\ exit_code \in {-1, EXIT_SUCCESS, EXIT_FAILURE}

\* ------------------------------------------------------------ the PEB a write failed on

\* PEB p carries a VID header.
HasVid(p) == flash[p][1].k = "vid"

\* C26: after a failed eb_write the PEB it failed on is left fully erased or
\* marked bad before the block is retried on the next PEB; hence at the end
\* of a UBI run no two non-bad PEBs of the window carry a VID header with the
\* same (vol_id, lnum).
C26_FailedPebUnused ==
    /\ \A i \in 1 .. Len(WriteCalls) :
         WriteCalls[i].ret # 0 =>
            LET p == UDiv(WriteCalls[i].addr, mtd.eb_size)
            IN  flash[p] = ErasedPeb \/ bad[p]
    /\ (args.ubi # 0 /\ pc = "exit") =>
          \A p, q \in Pebs :
             (/\ p # q /\ InWindow(p) /\ InWindow(q)
              /\ ~bad[p] /\ ~bad[q] /\ HasVid(p) /\ HasVid(q))
             => <<flash[p][1].h.vol_id, flash[p][1].h.lnum>>
                   # <<flash[q][1].h.vol_id, flash[q][1].h.lnum>>

\* ------------------------------------------------------------ deubinize: the output offset

\* The size of the data area of a PEB, as extract_volume_data computes it.
DataSize == USub(dargs.peb_size, imi.data_offset)

\* The lnum of the PEB at offset pos.
LnumAt(pos) == read_headers(pos).lnum

\* C27: the output offset of a matching PEB is the exact product
\* lnum * leb_size, for every lnum a valid VID header can carry and every
\* accepted peb_size: the multiplication does not wrap modulo 2^32, so that
\* two different lnum values of one volume are never written to the same
\* output offset.
C27_ExactOffset ==
    (dreq.info = 0) =>
        /\ \A pos \in Extracted :
              InVolume(pos) =>
                 \E w \in DOMAIN out :
                    UDiv(w, DataSize) = LnumAt(pos) /\ UMod(w, DataSize) = 0
        /\ Cardinality(DOMAIN out)
              = Cardinality({LnumAt(pos) : pos \in {q \in Extracted : InVolume(q)}})

\* ------------------------------------------------------------ init_compression

\* init_compression has returned and the caller has not used the layer yet.
InitReturned == cpc = "ret" /\ ctype = ""

\* The setup step that failed, read off the pointers init_compression
\* leaves: lzo_init left lzo_mem null; lzo_init succeeded and zlib_buf is
\* null; zlib_buf was allocated and released again at err_zlib.
LzoFailed == build.lzo /\ lzo_mem = "null"
ZlibFailed == ~LzoFailed /\ zlib_buf = "null"
LzmaFailed == zlib_buf = "freed"
StepFailed == LzoFailed \/ ZlibFailed \/ LzmaFailed

\* What init_compression acquired is released again.
AllReleased ==
    /\ lzo_mem # "live"
    /\ zlib_buf # "live"
    /\ lzma_p # "live"

\* C28: init_compression returns non-zero whenever one of its three setup
\* steps fails (lzo_init, the allocation of zlib_buf, lzma_init), having
\* released everything the earlier steps acquired, and returns 0 only when
\* all three succeeded.
C28_InitCompression ==
    InitReturned =>
        /\ StepFailed => (ic_ret # 0 /\ AllReleased)
        /\ ic_ret = 0 => ~StepFailed

=============================================================================
